---- MODULE Spec2Model ----
(***************************************************************************)
(* ct-scout: the per-log pollers (ct_log/monitor.rs), the cursor store     *)
(* (state.rs, database/state_manager.rs), the health tracker               *)
(* (ct_log/health.rs), the coordinator's consumer (ct_log/coordinator.rs)  *)
(* and the dedupe set (dedupe.rs).                                         *)
(***************************************************************************)
EXTENDS Integers, Sequences, FiniteSets, TLC

(***************************************************************************)
(* Bounds of the model.                                                    *)
(***************************************************************************)
\* Largest tree_size a log reaches.
MaxTree == 3
\* Largest configured batch_size.
MaxBatch == 2
\* Capacity of the shared queue in the model (mpsc::channel(1000) in the code).
QueueCap == 2
\* Largest number of consecutive failed polls the environment injects per log.
MaxFailures == 3
\* Largest number of Dedupe::should_emit calls in a run of the dedupe set alone.
MaxCalls == 3
\* Largest number of records sent in a run of the match pipeline alone.
MaxHandled == 2
\* Largest number of registered output handlers.
MaxSinks == 2
\* Largest number of consecutive failures recorded for a log in a run of the
\* health tracker alone.
MaxConsecutive == 63
\* Largest failure threshold a health tracker is built with.
MaxThreshold == 3
\* Seconds after a failure up to which the clock of the health tracker is followed.
MaxSince == 241
\* Largest tree_size a log has when the run starts.
InitTree == 1
\* Longest host or pattern, in characters, handed to the matcher.
MaxName == 3
\* Most labels of a host looked up in the fixture watchlist.
MaxLabels == 4
\* Most logs in the served log list.
MaxListed == 2
\* Most entries of custom_logs, and largest max_concurrent_logs.
MaxCustom == 2
\* Largest max_retries a retry wrapper is called with.
MaxRetries == 8

(***************************************************************************)
(* Program constants.                                                      *)
(***************************************************************************)
\* LogHealthTracker::default(): failures before a log is marked Failed.
FailureThreshold == 3
\* StateManager::update_index: advances between two automatic saves.
AutoSaveEvery == 100

\* The log URLs a run can be configured with.
Logs == {"A", "B"}

\* The guards shared by the tasks: LogHealthTracker.health (an RwLock),
\* StateManager.state and save_counter, Dedupe.inner and the watchlist.
Guards == {"health", "cursor", "counter", "dedupe", "watchlist"}

\* The tasks that use them: the poller of each log, the consumer
\* (CtLogCoordinator::run) and the platform-sync writer.
GuardTasks == Logs \cup {"consumer", "sync"}

\* The tasks that call the StateManager: the poller of each log and main.
StoreTasks == Logs \cup {"main"}

\* The holders of a clone of the Dedupe that call should_emit.
Callers == {"c1", "c2"}

\* The shapes of a log entry that parse_log_entry and poll_once tell apart.
Kinds == {"x509", "x509_nodomains", "precert", "malformed", "unknown_type"}

VARIABLES
    urls,            \* log_urls handed to CtLogCoordinator::new
    kinds,           \* the entry shapes the monitored logs contain
    log,             \* log[l]: the entries of log l, in index order (tree_size = Len)
    batch_size,      \* LogMonitorConfig.batch_size
    parse_precerts,  \* LogMonitorConfig.parse_precerts
    backend,         \* config.ct_logs.state_backend: "file" or "database"
    state,           \* the cursor map: StateManager.state / table ct_log_state
    save_counter,    \* StateManager.save_counter
    file,            \* the map held by the state file
    health,          \* LogHealthTracker.health
    shutdown,        \* value of the shutdown watch channel
    cpc,             \* consumer: "running", "done" (loop ended), "dropped" or "killed"
    queue,           \* the shared mpsc queue of CertData
    dedupe,          \* Dedupe.inner
    pc,              \* pc[l]: position of the poller of log l
    sth,             \* sth[l]: tree_size of this cycle's get-sth, as an option
    last_index,      \* last_index[l]: local of poll_once
    req,             \* req[l]: the get-entries range requested in this cycle, as an option
    entries,         \* entries[l]: number of entries get-entries returned
    offset,          \* offset[l]: position of poll_once's loop over the entries
    accepted,        \* accepted[l]: indices whose send returned Ok (history)
    send_failed,     \* send_failed[l]: a send of poller l returned Err (history)
    last_drained,    \* last_drained[l]: cert_index the consumer drained last, as an option
    drained,         \* drained[l]: the cert_index values of log l the consumer drained, in order (history)
    dpc,             \* dpc[c]: position of caller c inside Dedupe::should_emit
    ddata,           \* ddata[c]: the CertData caller c passed
    dfound,          \* dfound[c]: what guard.contains(&key) returned to caller c
    dmutex,          \* holder of the Mutex of Dedupe.inner, as an option
    dcalls,          \* the should_emit calls that returned, in order: (data, result) (history)
    dedupe_enabled,  \* main: dedupe_enabled (CLI flags over config.ct_logs.dedupe)
    watchlist,       \* the Watchlist handed to CtLogCoordinator::run
    root_filter,     \* the Option<RootDomainFilter> handed to run: its roots, as an option
    sinks,           \* OutputManager.handlers.len()
    handled,         \* the records handle_cert_entry returned for, with what it did (history)
    failure_threshold, \* LogHealthTracker.failure_threshold
    overflow_checks, \* the build panics on integer overflow (debug) or wraps (release)
    since_failure,   \* since_failure[l]: seconds since info.last_failure, as an option
    poll_answer,     \* poll_answer[l]: what should_poll just returned, as an option
    panicked,        \* panicked[l]: the task calling record_failure for l panicked
    signalled,       \* the operator sent SIGINT or SIGTERM to the process
    mpc,             \* main: "run" (awaiting coordinator.run), "final_save", "returned",
                     \* "failed" (returned an Err) or "killed"
    call,            \* the arguments of the function under call, as an option
    ret,             \* what that call returned, as an option
    spc,             \* spc[t]: position of task t inside StateManager::update_index / save
    sarg,            \* sarg[t]: the index task t passed to update_index
    slock,           \* holder of the Mutex of StateManager.state during save, as an option
    tmp,             \* the temporary file next to the state file
    held,            \* held[l]: the values the in-memory cursor of l has held (history)
    gpc,             \* gpc[t]: the instruction task t is at in its sequence of guard uses
    guard            \* guard[g]: the tasks holding guard g, and whether exclusively

cfgvars  == <<urls, kinds, batch_size, parse_precerts, backend>>
pollvars == <<pc, sth, last_index, req, entries, offset>>
histvars == <<accepted, send_failed, last_drained, drained>>
callvars == <<dpc, ddata, dfound, dmutex, dcalls>>
matchvars == <<dedupe_enabled, watchlist, root_filter, sinks, handled>>
healthvars == <<failure_threshold, overflow_checks, since_failure, poll_answer, panicked>>
mainvars == <<signalled, mpc>>
fnvars == <<call, ret>>
storevars == <<spc, sarg, slock, tmp, held>>
guardvars == <<gpc, guard>>
extvars == <<matchvars, healthvars, mainvars, fnvars, storevars, guardvars>>
vars == <<extvars, callvars, urls, kinds, log, batch_size, parse_precerts, backend, state, save_counter,
          file, health, shutdown, cpc, queue, dedupe, pc, sth, last_index, req,
          entries, offset, accepted, send_failed, last_drained, drained>>

(***************************************************************************)
(* Helpers.                                                                *)
(***************************************************************************)
\* Option<T>: None is <<>>, Some(x) is <<x>>.
None == <<>>
Some(x) == <<x>>

Min(a, b) == IF a <= b THEN a ELSE b

\* HashMap::insert.
MapInsert(m, k, v) == [x \in (DOMAIN m) \cup {k} |-> IF x = k THEN v ELSE m[x]]

\* HashMap::get(..).copied(), as an option.
MapGet(m, k) == IF k \in DOMAIN m THEN Some(m[k]) ELSE None

\* Option::unwrap_or.
UnwrapOr(o, d) == IF o = None THEN d ELSE o[1]

\* The empty HashMap.
EmptyMap == [x \in {} |-> 0]

(***************************************************************************)
(* Entry decoder (cert_parser.rs), by the shape of the entry.              *)
(***************************************************************************)
\* parse_log_entry without the parse_precerts gate of entry type 1.
parse_log_entry_ungated(kind, pp) ==
    CASE kind = "x509" ->
            [ok |-> TRUE, disabled |-> FALSE, is_precert |-> FALSE, has_domains |-> TRUE]
      [] kind = "x509_nodomains" ->
            [ok |-> TRUE, disabled |-> FALSE, is_precert |-> FALSE, has_domains |-> FALSE]
      [] kind = "precert" ->
            [ok |-> TRUE, disabled |-> FALSE, is_precert |-> TRUE, has_domains |-> TRUE]
      [] OTHER ->
            [ok |-> FALSE, disabled |-> FALSE, is_precert |-> FALSE, has_domains |-> FALSE]

\* CertificateParser::parse_log_entry: ok = Ok(ParsedCert); for an Err,
\* disabled tells the "Precertificate parsing disabled" error from the others.
parse_log_entry(kind, pp) ==
    CASE kind = "x509" ->
            [ok |-> TRUE, disabled |-> FALSE, is_precert |-> FALSE, has_domains |-> TRUE]
      [] kind = "x509_nodomains" ->
            [ok |-> TRUE, disabled |-> FALSE, is_precert |-> FALSE, has_domains |-> FALSE]
      [] kind = "precert" ->
            IF ~pp
            THEN [ok |-> FALSE, disabled |-> TRUE, is_precert |-> FALSE, has_domains |-> FALSE]
            ELSE [ok |-> TRUE, disabled |-> FALSE, is_precert |-> TRUE, has_domains |-> TRUE]
      [] OTHER ->
            [ok |-> FALSE, disabled |-> FALSE, is_precert |-> FALSE, has_domains |-> FALSE]

\* poll_once, lines 161-181: the entry is skipped (continue) instead of sent.
EntrySkipped(kind, pp) ==
    LET parsed == parse_log_entry(kind, pp)
    IN  ~parsed.ok \/ ~parsed.has_domains

(***************************************************************************)
(* Health tracker (ct_log/health.rs).                                      *)
(***************************************************************************)
RECURSIVE Pow2(_)
Pow2(n) == IF n = 0 THEN 1 ELSE 2 * Pow2(n - 1)

\* A u64 is the set of the positions (0..63) of its bits that are 1.
\* 2_u64.pow(e) with wrapping arithmetic: 0 from e = 64 on.
WrappingPow2(e) == IF e < 64 THEN {e} ELSE {}

\* 60 * x, wrapping, for x a power of two or 0: 60 = 2^2 + 2^3 + 2^4 + 2^5,
\* and the bits shifted past position 63 are lost.
WrappingTimes60(x) == {b + d : b \in x, d \in {2, 3, 4, 5}} \cap 0..63

\* 60 * 2_u64.pow(e) does not fit 64 bits: the build with overflow checks
\* panics there.
BackoffOverflows(e) == e + 5 >= 64

RECURSIVE SumPow2(_)
SumPow2(x) == IF x = {} THEN 0 ELSE LET b == CHOOSE b \in x : TRUE
                                    IN  Pow2(b) + SumPow2(x \ {b})

\* x.min(3600) as a number: a u64 with a bit at position 12 or above is over 3600.
MinWith3600(x) == IF \E b \in x : b >= 12 THEN 3600 ELSE Min(SumPow2(x), 3600)

\* LogHealthInfo::next_backoff, in seconds, in a build where overflow wraps.
next_backoff(failure_count) ==
    IF failure_count = 0 THEN 0
    ELSE MinWith3600(WrappingTimes60(WrappingPow2(failure_count - 1)))

\* LogHealthInfo::new. elapsed stands for last_failure.elapsed() >= current_backoff.
NewHealthInfo ==
    [status |-> "Healthy", failure_count |-> 0, current_backoff |-> 0, elapsed |-> TRUE]

HealthInfo(l) == IF l \in DOMAIN health THEN health[l] ELSE NewHealthInfo

\* LogHealthTracker::record_success.
record_success(l) ==
    health' = MapInsert(health, l,
        [status |-> "Healthy", failure_count |-> 0, current_backoff |-> 0,
         elapsed |-> TRUE])

\* record_failure with a threshold that must be exceeded.
record_failure_above_threshold(l) ==
    LET n == HealthInfo(l).failure_count + 1
    IN  health' = MapInsert(health, l,
            [status |-> IF n > failure_threshold THEN "Failed" ELSE "Degraded",
             failure_count |-> n,
             current_backoff |-> next_backoff(n),
             elapsed |-> 0 >= next_backoff(n)])

\* LogHealthTracker::record_failure. last_failure is now, so the backoff has
\* elapsed only when it is zero.
record_failure(l) ==
    LET n == HealthInfo(l).failure_count + 1
    IN  health' = MapInsert(health, l,
            [status |-> IF n >= failure_threshold THEN "Failed" ELSE "Degraded",
             failure_count |-> n,
             current_backoff |-> next_backoff(n),
             elapsed |-> 0 >= next_backoff(n)])

\* LogHealthTracker::record_failure, lines 104-120, in a build with overflow
\* checks when next_backoff overflows: the count, last_failure and the
\* status are written, then next_backoff panics and current_backoff keeps
\* its value.
record_failure_panics(l) ==
    LET n == HealthInfo(l).failure_count + 1
    IN  health' = MapInsert(health, l,
            [status |-> IF n >= failure_threshold THEN "Failed" ELSE "Degraded",
             failure_count |-> n,
             current_backoff |-> HealthInfo(l).current_backoff,
             elapsed |-> 0 >= HealthInfo(l).current_backoff])

\* should_poll with a backoff that must be exceeded.
should_poll_at_strict(l) ==
    IF l \notin DOMAIN health THEN TRUE
    ELSE IF health[l].status \in {"Healthy", "Degraded"} THEN TRUE
    ELSE IF since_failure[l] = None THEN TRUE
    ELSE since_failure[l][1] > health[l].current_backoff

\* LogHealthTracker::should_poll, with last_failure.elapsed() on the clock.
should_poll_at(l) ==
    IF l \notin DOMAIN health THEN TRUE
    ELSE IF health[l].status \in {"Healthy", "Degraded"} THEN TRUE
    ELSE IF since_failure[l] = None THEN TRUE
    ELSE since_failure[l][1] >= health[l].current_backoff

\* should_poll without the backoff test: every log is polled in every cycle.
should_poll_ignoring_backoff(l) == TRUE

\* LogHealthTracker::should_poll.
should_poll(l) ==
    IF l \notin DOMAIN health THEN TRUE
    ELSE IF health[l].status \in {"Healthy", "Degraded"} THEN TRUE
    ELSE health[l].elapsed

\* The environment injects one more failed poll on log l.
MayFail(l) == HealthInfo(l).failure_count < MaxFailures

(***************************************************************************)
(* Cursor store (state.rs, database/state_manager.rs).                     *)
(***************************************************************************)
\* The stored cursor of log l, 0 when the log has none yet.
Cursor(l) == UnwrapOr(MapGet(state, l), 0)

\* StateManager::update_index: insert, count, and save on the 100th advance
\* (a failed save is logged; the state file then keeps its old content).
FileUpdateIndex(l, index) ==
    /\ state' = MapInsert(state, l, index)
    /\ IF save_counter + 1 >= AutoSaveEvery
       THEN /\ save_counter' = 0
            /\ file' \in {file, state'}
       ELSE /\ save_counter' = save_counter + 1
            /\ file' = file

\* DbStateManager::update_index when update_log_state succeeds (an upsert).
DbUpdateIndex(l, index) ==
    /\ state' = MapInsert(state, l, index)
    /\ UNCHANGED <<save_counter, file>>

(***************************************************************************)
(* poll_once's arithmetic (ct_log/monitor.rs).                             *)
(***************************************************************************)
\* BatchEnd without the clamp to tree_size.
BatchEndNoClamp(last, b, tree_size) == last + b - 1

\* BatchEnd as an exclusive end: the "- 1" is lost.
BatchEndExclusive(last, b, tree_size) == Min(last + b, tree_size)

\* Line 136: let end_index = min(last_index + batch_size, tree_size) - 1.
BatchEnd(last, b, tree_size) == Min(last + b, tree_size) - 1

\* EntryIndex without the base of the batch.
EntryIndexNoBase(last, off) == off

\* Line 158: let entry_index = last_index + offset.
EntryIndex(last, off) == last + off

\* The entry of log l at 0-based index i.
EntryAt(l, i) == log[l][i + 1]

\* The CertData of lines 184-196: cert_index and ct_log_url are always Some.
CertDataOf(l, i) ==
    [cert_index |-> Some(i),
     leaf_cert |-> Some([fingerprint |-> Some(i)]),
     ct_log_url |-> Some(l),
     is_precert |-> parse_log_entry(EntryAt(l, i), parse_precerts).is_precert]

(***************************************************************************)
(* The poller of log l: LogMonitor::run and poll_once (ct_log/monitor.rs). *)
(* pc[l]: "loop" (top of run's loop), "backoff_sleep" (the sleep of a      *)
(* skipped poll), "get_index", "get_entries", "process" (top of the loop   *)
(* over the entries), "send", "update_index", "record_success",            *)
(* "record_failure", "sleep" (the select at the end of a cycle), "exited". *)
(***************************************************************************)
Goto(l, where) == pc' = [pc EXCEPT ![l] = where]

\* run, lines 62-65: the shutdown flag is seen at the top of the loop.
MonitorShutdown(l) ==
    /\ pc[l] = "loop"
    /\ shutdown
    /\ Goto(l, "exited")
    /\ UNCHANGED <<extvars, callvars, cfgvars, log, state, save_counter, file, health, shutdown, cpc, queue,
                   dedupe, sth, last_index, req, entries, offset, histvars>>

\* run, lines 68-72: should_poll is false, sleep one poll interval and continue.
MonitorSkip(l) ==
    /\ pc[l] = "loop"
    /\ ~shutdown
    /\ ~should_poll(l)
    /\ Goto(l, "backoff_sleep")
    /\ UNCHANGED <<extvars, callvars, cfgvars, log, state, save_counter, file, health, shutdown, cpc, queue,
                   dedupe, sth, last_index, req, entries, offset, histvars>>

\* run, line 70: the sleep of a skipped poll ends.
MonitorSkipWake(l) ==
    /\ pc[l] = "backoff_sleep"
    /\ Goto(l, "loop")
    /\ UNCHANGED <<extvars, callvars, cfgvars, log, state, save_counter, file, health, shutdown, cpc, queue,
                   dedupe, sth, last_index, req, entries, offset, histvars>>

\* run line 75 and poll_once lines 111-117: a new cycle starts and
\* get_sth_with_retry returns the log's current tree_size.
GetSthOk(l) ==
    /\ pc[l] = "loop"
    /\ ~shutdown
    /\ should_poll(l)
    /\ sth' = [sth EXCEPT ![l] = Some(Len(log[l]))]
    /\ last_index' = [last_index EXCEPT ![l] = 0]
    /\ req' = [req EXCEPT ![l] = None]
    /\ entries' = [entries EXCEPT ![l] = 0]
    /\ offset' = [offset EXCEPT ![l] = 0]
    /\ Goto(l, "get_index")
    /\ UNCHANGED <<extvars, callvars, cfgvars, log, state, save_counter, file, health, shutdown, cpc, queue,
                   dedupe, histvars>>

\* poll_once lines 111-115: get_sth_with_retry fails after its retries.
GetSthErr(l) ==
    /\ pc[l] = "loop"
    /\ ~shutdown
    /\ should_poll(l)
    /\ MayFail(l)
    /\ sth' = [sth EXCEPT ![l] = None]
    /\ last_index' = [last_index EXCEPT ![l] = 0]
    /\ req' = [req EXCEPT ![l] = None]
    /\ entries' = [entries EXCEPT ![l] = 0]
    /\ offset' = [offset EXCEPT ![l] = 0]
    /\ Goto(l, "record_failure")
    /\ UNCHANGED <<extvars, callvars, cfgvars, log, state, save_counter, file, health, shutdown, cpc, queue,
                   dedupe, histvars>>

\* poll_once lines 120-136 with the value `loaded` of get_last_index: up to
\* date returns Ok(()), otherwise the range is computed.
RangeStep(l, loaded) ==
    /\ pc[l] = "get_index"
    /\ last_index' = [last_index EXCEPT ![l] = UnwrapOr(loaded, 0)]
    /\ IF UnwrapOr(loaded, 0) >= sth[l][1]
       THEN Goto(l, "record_success")
       ELSE Goto(l, "get_entries")
    /\ UNCHANGED <<extvars, callvars, cfgvars, log, state, save_counter, file, health, shutdown, cpc, queue,
                   dedupe, sth, req, entries, offset, histvars>>

\* StateManager::get_last_index, and DbStateManager::get_last_index when the
\* point lookup succeeds.
GetLastIndex(l) == RangeStep(l, MapGet(state, l))

\* DbStateManager::get_last_index, lines 29-32: the lookup fails, None is returned.
GetLastIndexDbErr(l) ==
    /\ backend = "database"
    /\ RangeStep(l, None)

\* The range poll_once requests: (start, end).
RequestOf(l) == <<last_index[l], BatchEnd(last_index[l], batch_size, sth[l][1])>>

\* The entries the log holds in the range (start, end).
Available(l, r) ==
    IF Min(r[2], Len(log[l]) - 1) < r[1] THEN 0
    ELSE Min(r[2], Len(log[l]) - 1) - r[1] + 1

\* poll_once lines 144-154: get_entries_with_retry returns m entries, the
\* range in full or fewer.
GetEntriesOk(l, m) ==
    /\ pc[l] = "get_entries"
    /\ m \in 0..Available(l, RequestOf(l))
    /\ req' = [req EXCEPT ![l] = Some(RequestOf(l))]
    /\ entries' = [entries EXCEPT ![l] = m]
    /\ offset' = [offset EXCEPT ![l] = 0]
    /\ Goto(l, "process")
    /\ UNCHANGED <<extvars, callvars, cfgvars, log, state, save_counter, file, health, shutdown, cpc, queue,
                   dedupe, sth, last_index, histvars>>

\* poll_once lines 144-148: get_entries_with_retry fails after its retries.
GetEntriesErr(l) ==
    /\ pc[l] = "get_entries"
    /\ MayFail(l)
    /\ req' = [req EXCEPT ![l] = Some(RequestOf(l))]
    /\ Goto(l, "record_failure")
    /\ UNCHANGED <<extvars, callvars, cfgvars, log, state, save_counter, file, health, shutdown, cpc, queue,
                   dedupe, sth, last_index, entries, offset, histvars>>

\* ProcessEntry with the cursor advanced before the send instead of after it.
ProcessEntryAdvancing(l) ==
    /\ pc[l] = "process"
    /\ offset[l] < entries[l]
    /\ IF EntrySkipped(EntryAt(l, EntryIndex(last_index[l], offset[l])), parse_precerts)
       THEN /\ offset' = [offset EXCEPT ![l] = @ + 1]
            /\ pc' = pc
            /\ state' = state
       ELSE /\ offset' = offset
            /\ Goto(l, "send")
            /\ state' = MapInsert(state, l, EntryIndex(last_index[l], offset[l]) + 1)
    /\ UNCHANGED <<extvars, callvars, cfgvars, log, save_counter, file, health, shutdown, cpc, queue,
                   dedupe, sth, last_index, req, entries, histvars>>

\* poll_once lines 157-196: the next entry is decoded; a decode error or an
\* empty domain list skips it (continue), otherwise its CertData is built.
ProcessEntry(l) ==
    /\ pc[l] = "process"
    /\ offset[l] < entries[l]
    /\ IF EntrySkipped(EntryAt(l, EntryIndex(last_index[l], offset[l])), parse_precerts)
       THEN /\ offset' = [offset EXCEPT ![l] = @ + 1]
            /\ pc' = pc
       ELSE /\ offset' = offset
            /\ Goto(l, "send")
    /\ UNCHANGED <<extvars, callvars, cfgvars, log, state, save_counter, file, health, shutdown, cpc, queue,
                   dedupe, sth, last_index, req, entries, histvars>>

\* ProcessDone with the cursor moved past the requested range when the loop
\* ends, whatever the number of entries returned.
ProcessDoneWholeRange(l) ==
    /\ pc[l] = "process"
    /\ offset[l] = entries[l]
    /\ IF backend = "file"
       THEN FileUpdateIndex(l, req[l][1][2] + 1)
       ELSE DbUpdateIndex(l, req[l][1][2] + 1)
    /\ Goto(l, "record_success")
    /\ UNCHANGED <<extvars, callvars, cfgvars, log, health, shutdown, cpc, queue, dedupe, sth, last_index,
                   req, entries, offset, histvars>>

\* poll_once lines 214-222: the loop over the entries is over, Ok(()).
ProcessDone(l) ==
    /\ pc[l] = "process"
    /\ offset[l] = entries[l]
    /\ Goto(l, "record_success")
    /\ UNCHANGED <<extvars, callvars, cfgvars, log, state, save_counter, file, health, shutdown, cpc, queue,
                   dedupe, sth, last_index, req, entries, offset, histvars>>

\* poll_once line 199: cert_tx.send returns Ok once the queue has room.
SendOk(l) ==
    /\ pc[l] = "send"
    /\ cpc = "running"
    /\ Len(queue) < QueueCap
    /\ queue' = Append(queue, CertDataOf(l, EntryIndex(last_index[l], offset[l])))
    /\ accepted' = [accepted EXCEPT ![l] = @ \cup {EntryIndex(last_index[l], offset[l])}]
    /\ Goto(l, "update_index")
    /\ UNCHANGED <<extvars, callvars, cfgvars, log, state, save_counter, file, health, shutdown, cpc, dedupe,
                   sth, last_index, req, entries, offset, send_failed, last_drained, drained>>

\* poll_once lines 199-206: the receiver is gone, send returns Err and
\* poll_once returns Err("Processing pipeline closed").
SendClosed(l) ==
    /\ pc[l] = "send"
    /\ cpc # "running"
    /\ MayFail(l)
    /\ send_failed' = [send_failed EXCEPT ![l] = TRUE]
    /\ Goto(l, "record_failure")
    /\ UNCHANGED <<extvars, callvars, cfgvars, log, state, save_counter, file, health, shutdown, cpc, queue,
                   dedupe, sth, last_index, req, entries, offset, accepted, last_drained, drained>>

\* poll_once lines 209-211 with a store that takes the update: the cursor
\* becomes entry_index + 1 and the loop goes to the next entry.
UpdateIndex(l) ==
    /\ pc[l] = "update_index"
    /\ IF backend = "file"
       THEN FileUpdateIndex(l, EntryIndex(last_index[l], offset[l]) + 1)
       ELSE DbUpdateIndex(l, EntryIndex(last_index[l], offset[l]) + 1)
    /\ offset' = [offset EXCEPT ![l] = @ + 1]
    /\ Goto(l, "process")
    /\ UNCHANGED <<extvars, callvars, cfgvars, log, health, shutdown, cpc, queue, dedupe, sth, last_index,
                   req, entries, histvars>>

\* DbStateManager::update_index, lines 47-48: update_log_state fails, the
\* failure is logged and the loop goes on.
UpdateIndexDbErr(l) ==
    /\ pc[l] = "update_index"
    /\ backend = "database"
    /\ offset' = [offset EXCEPT ![l] = @ + 1]
    /\ Goto(l, "process")
    /\ UNCHANGED <<extvars, callvars, cfgvars, log, state, save_counter, file, health, shutdown, cpc, queue,
                   dedupe, sth, last_index, req, entries, histvars>>

\* run, lines 76-79: poll_once returned Ok.
RecordSuccess(l) ==
    /\ pc[l] = "record_success"
    /\ record_success(l)
    /\ Goto(l, "sleep")
    /\ UNCHANGED <<extvars, callvars, cfgvars, log, state, save_counter, file, shutdown, cpc, queue, dedupe,
                   sth, last_index, req, entries, offset, histvars>>

\* run, lines 80-90: poll_once returned Err.
RecordFailure(l) ==
    /\ pc[l] = "record_failure"
    /\ record_failure(l)
    /\ Goto(l, "sleep")
    /\ UNCHANGED <<extvars, callvars, cfgvars, log, state, save_counter, file, shutdown, cpc, queue, dedupe,
                   sth, last_index, req, entries, offset, histvars>>

\* run, line 95: the poll interval elapses.
SleepElapsed(l) ==
    /\ pc[l] = "sleep"
    /\ Goto(l, "loop")
    /\ UNCHANGED <<extvars, callvars, cfgvars, log, state, save_counter, file, health, shutdown, cpc, queue,
                   dedupe, sth, last_index, req, entries, offset, histvars>>

\* run, lines 96-100: the shutdown signal interrupts the sleep.
SleepShutdown(l) ==
    /\ pc[l] = "sleep"
    /\ shutdown
    /\ Goto(l, "exited")
    /\ UNCHANGED <<extvars, callvars, cfgvars, log, state, save_counter, file, health, shutdown, cpc, queue,
                   dedupe, sth, last_index, req, entries, offset, histvars>>

(***************************************************************************)
(* Dedupe set (dedupe.rs).                                                 *)
(***************************************************************************)
\* Dedupe::should_emit, lines 22-32: the key, None when the record has
\* neither a cert_index nor a fingerprint. format!("idx:{}", idx) and
\* format!("fp:{}", fp) are kept as (prefix, value).
DedupeKey(data) ==
    IF data.cert_index # None THEN Some(<<"idx:", data.cert_index[1]>>)
    ELSE IF data.leaf_cert # None
    THEN IF data.leaf_cert[1].fingerprint # None
         THEN Some(<<"fp:", data.leaf_cert[1].fingerprint[1]>>)
         ELSE None
    ELSE None

\* Dedupe::should_emit, lines 34-40, on the set `inner`: the returned value.
ShouldEmit(inner, data) ==
    IF DedupeKey(data) = None THEN TRUE
    ELSE DedupeKey(data)[1] \notin inner

\* Dedupe::should_emit, lines 34-40: the set after the call.
AfterShouldEmit(inner, data) ==
    IF DedupeKey(data) = None THEN inner
    ELSE inner \cup {DedupeKey(data)[1]}

\* The records should_emit is called with: cert_index absent or present,
\* leaf_cert absent, without fingerprint or with one, from either log.
DedupeInputs ==
    {[cert_index |-> ci, leaf_cert |-> lc, ct_log_url |-> Some(u), is_precert |-> FALSE] :
        ci \in {None, Some(100), Some(101)},
        lc \in {None, Some([fingerprint |-> None]), Some([fingerprint |-> Some(100)]),
                Some([fingerprint |-> Some(200)])},
        u \in Logs}

\* The calls that have started: returned or still inside should_emit.
CallsStarted == Len(dcalls) + Cardinality({c \in Callers : dpc[c] # "idle"})

\* should_emit, lines 22-32, called by c with data: a record without key
\* returns true at once, the others go on to lock the set.
DedupeCall(c, data) ==
    /\ dpc[c] = "idle"
    /\ CallsStarted < MaxCalls
    /\ IF DedupeKey(data) = None
       THEN /\ dcalls' = Append(dcalls, [data |-> data, result |-> TRUE])
            /\ UNCHANGED <<dpc, ddata>>
       ELSE /\ dpc' = [dpc EXCEPT ![c] = "lock"]
            /\ ddata' = [ddata EXCEPT ![c] = Some(data)]
            /\ dcalls' = dcalls
    /\ UNCHANGED <<extvars, dfound, dmutex, cfgvars, log, state, save_counter, file, health,
                   shutdown, cpc, queue, dedupe, pollvars, histvars>>

\* DedupeLock with no mutual exclusion.
DedupeLockFree(c) ==
    /\ dpc[c] = "lock"
    /\ dmutex' = Some(c)
    /\ dpc' = [dpc EXCEPT ![c] = "locked"]
    /\ UNCHANGED <<extvars, ddata, dfound, dcalls, cfgvars, log, state, save_counter, file, health,
                   shutdown, cpc, queue, dedupe, pollvars, histvars>>

\* should_emit, line 34: self.inner.lock().await.
DedupeLock(c) ==
    /\ dpc[c] = "lock"
    /\ dmutex = None
    /\ dmutex' = Some(c)
    /\ dpc' = [dpc EXCEPT ![c] = "locked"]
    /\ UNCHANGED <<extvars, ddata, dfound, dcalls, cfgvars, log, state, save_counter, file, health,
                   shutdown, cpc, queue, dedupe, pollvars, histvars>>

\* should_emit, line 35: guard.contains(&key).
DedupeContains(c) ==
    /\ dpc[c] = "locked"
    /\ dfound' = [dfound EXCEPT ![c] = DedupeKey(ddata[c][1])[1] \in dedupe]
    /\ dpc' = [dpc EXCEPT ![c] = "checked"]
    /\ UNCHANGED <<extvars, ddata, dmutex, dcalls, cfgvars, log, state, save_counter, file, health,
                   shutdown, cpc, queue, dedupe, pollvars, histvars>>

\* should_emit, lines 35-41: false when the key was found, else insert and
\* true; the guard is dropped on return.
DedupeReturn(c) ==
    /\ dpc[c] = "checked"
    /\ dedupe' = IF dfound[c] THEN dedupe ELSE dedupe \cup {DedupeKey(ddata[c][1])[1]}
    /\ dcalls' = Append(dcalls, [data |-> ddata[c][1], result |-> ~dfound[c]])
    /\ dmutex' = IF dmutex = Some(c) THEN None ELSE dmutex
    /\ dpc' = [dpc EXCEPT ![c] = "idle"]
    /\ ddata' = [ddata EXCEPT ![c] = None]
    /\ dfound' = [dfound EXCEPT ![c] = FALSE]
    /\ UNCHANGED <<extvars, cfgvars, log, state, save_counter, file, health, shutdown, cpc, queue,
                   pollvars, histvars>>

(***************************************************************************)
(* Domain names, the watchlist (watchlist.rs) and the root filter          *)
(* (filter.rs). A name is the sequence of its characters.                  *)
(***************************************************************************)
\* str::to_ascii_lowercase / to_lowercase on the characters the model uses.
LowerChar(c) ==
    IF c = "A" THEN "a" ELSE IF c = "B" THEN "b" ELSE IF c = "T" THEN "t" ELSE c

ToLower(str) == [i \in 1..Len(str) |-> LowerChar(str[i])]

\* str::ends_with.
EndsWith(str, suffix) ==
    /\ Len(suffix) <= Len(str)
    /\ SubSeq(str, Len(str) - Len(suffix) + 1, Len(str)) = suffix

\* str::strip_prefix, as an option.
StripPrefix(str, prefix) ==
    IF Len(prefix) <= Len(str) /\ SubSeq(str, 1, Len(prefix)) = prefix
    THEN Some(SubSeq(str, Len(prefix) + 1, Len(str)))
    ELSE None

\* format!(".{}", suffix).
DotBefore(suffix) == <<".">> \o suffix

\* matches_pattern with a wildcard that also takes the bare domain.
matches_pattern_wildcard_bare(host, pattern) ==
    LET pattern_lower == ToLower(pattern)
        wild == StripPrefix(pattern_lower, <<"*", ".">>)
        suff == StripPrefix(pattern_lower, <<".">>)
    IN  IF wild # None THEN host = wild[1] \/ EndsWith(host, DotBefore(wild[1]))
        ELSE IF suff # None THEN host = suff[1] \/ EndsWith(host, DotBefore(suff[1]))
        ELSE host = pattern_lower \/ EndsWith(host, DotBefore(pattern_lower))

\* Watchlist::matches_pattern(host, pattern): "*.x" wildcard, ".x" suffix,
\* "x" plain.
matches_pattern(host, pattern) ==
    LET pattern_lower == ToLower(pattern)
        wild == StripPrefix(pattern_lower, <<"*", ".">>)
        suff == StripPrefix(pattern_lower, <<".">>)
    IN  IF wild # None THEN EndsWith(host, DotBefore(wild[1]))
        ELSE IF suff # None THEN host = suff[1] \/ EndsWith(host, DotBefore(suff[1]))
        ELSE host = pattern_lower \/ EndsWith(host, DotBefore(pattern_lower))

\* program_for_domain returning the last program that matches.
program_for_domain_last(wl, domain) ==
    LET host == ToLower(domain)
        matching == {i \in 1..Len(wl.programs) :
                        \/ \E h \in wl.programs[i].hosts : ToLower(h) = host
                        \/ \E pattern \in wl.programs[i].domains : matches_pattern(host, pattern)}
    IN  IF matching = {} THEN None
        ELSE Some(wl.programs[CHOOSE i \in matching : \A j \in matching : j <= i])

\* Watchlist::program_for_domain: the loop over self.programs returns at the
\* first program with a host or a domain pattern that matches.
program_for_domain(wl, domain) ==
    LET host == ToLower(domain)
        matching == {i \in 1..Len(wl.programs) :
                        \/ \E h \in wl.programs[i].hosts : ToLower(h) = host
                        \/ \E pattern \in wl.programs[i].domains : matches_pattern(host, pattern)}
    IN  IF matching = {} THEN None
        ELSE Some(wl.programs[CHOOSE i \in matching : \A j \in matching : i <= j])

\* Watchlist::add_domain_to_program: the domain goes to the first program of
\* that name unless it has it already; without such a program a new one is
\* pushed at the end.
add_domain_to_program(wl, domain, program_name) ==
    LET found == {i \in 1..Len(wl.programs) : wl.programs[i].name = program_name}
    IN  IF found # {}
        THEN LET first == CHOOSE i \in found : \A j \in found : i <= j
             IN  [wl EXCEPT !.programs[first].domains = @ \cup {domain}]
        ELSE [wl EXCEPT !.programs =
                 Append(@, [name |-> program_name, hosts |-> {}, domains |-> {domain}])]

\* Watchlist::add_host_to_program: the same with the host list.
add_host_to_program(wl, host, program_name) ==
    LET found == {i \in 1..Len(wl.programs) : wl.programs[i].name = program_name}
    IN  IF found # {}
        THEN LET first == CHOOSE i \in found : \A j \in found : i <= j
             IN  [wl EXCEPT !.programs[first].hosts = @ \cup {host}]
        ELSE [wl EXCEPT !.programs =
                 Append(@, [name |-> program_name, hosts |-> {host}, domains |-> {}])]

\* Watchlist::matches_domain.
matches_domain(wl, domain) ==
    LET host == ToLower(domain)
    IN  \/ \E h \in wl.global_hosts : ToLower(h) = host
        \/ \E pattern \in wl.global_domains : matches_pattern(host, pattern)
        \/ \E i \in 1..Len(wl.programs) :
              \/ \E h \in wl.programs[i].hosts : ToLower(h) = host
              \/ \E pattern \in wl.programs[i].domains : matches_pattern(host, pattern)

\* RootDomainFilter::from_list: the roots, lowercased.
RootFilterFromList(domains) == {ToLower(d) : d \in domains}

\* RootDomainFilter::should_emit on the filter's roots.
RootShouldEmit(roots, domain) ==
    LET domain_lower == ToLower(domain)
    IN  \E root \in roots : domain_lower = root \/ EndsWith(domain_lower, DotBefore(root))

\* The names the model's certificates carry.
NameT  == <<"t">>
NameAT == <<"a", ".", "t">>
NameBT == <<"b", ".", "t">>
NameUpperAT == <<"A", ".", "T">>
NameXT == <<"x", "t">>
NameO  == <<"o">>

\* The watchlists a run is configured with.
Watchlists ==
    {[global_hosts |-> {}, global_domains |-> {<<".", "t">>}, programs |-> <<>>],
     [global_hosts |-> {NameO}, global_domains |-> {<<"*", ".", "t">>}, programs |-> <<>>],
     [global_hosts |-> {}, global_domains |-> {},
      programs |-> <<[name |-> "p", hosts |-> {NameBT}, domains |-> {<<"T">>}]>>]}

\* The root filters a run is configured with: none, or one built from a list.
RootFilters == {None, Some(RootFilterFromList({NameAT})), Some(RootFilterFromList({<<"T">>}))}

\* The all_domains values of the records the pollers send.
DomainLists ==
    {None, Some(<<>>), Some(<<NameO>>), Some(<<NameT>>), Some(<<NameBT, NameAT>>),
     Some(<<NameXT, NameUpperAT, NameBT>>)}

(***************************************************************************)
(* The consumer: CtLogCoordinator::run (ct_log/coordinator.rs).            *)
(***************************************************************************)
\* Every sender is dropped: every spawned poller has left run.
AllPollersExited == \A l \in urls : pc[l] = "exited"

\* StatsCollector.total_processed: run increments it for every record that
\* recv returned.
total_processed == Len(drained["A"]) + Len(drained["B"])

\* The records the consumer is followed for: the entries of one log, sent
\* once each, are never more.
MaxProcessed == MaxTree

\* Consume with the queue emptied by one recv: the records behind the head
\* are dropped.
ConsumeDroppingRest ==
    /\ cpc = "running"
    /\ queue # <<>>
    /\ total_processed < MaxProcessed
    /\ queue' = <<>>
    /\ dedupe' = AfterShouldEmit(dedupe, Head(queue))
    /\ last_drained' = [last_drained EXCEPT ![Head(queue).ct_log_url[1]] =
                            Head(queue).cert_index]
    /\ drained' = [drained EXCEPT ![Head(queue).ct_log_url[1]] =
                       Append(@, Head(queue).cert_index[1])]
    /\ UNCHANGED <<extvars, callvars, cfgvars, log, state, save_counter, file, health, shutdown, cpc,
                   pollvars, accepted, send_failed>>

\* run, lines 115-129: recv returns the head of the queue, it is counted
\* (increment_processed) and goes through handle_cert_entry's dedupe step.
Consume ==
    /\ cpc = "running"
    /\ queue # <<>>
    /\ total_processed < MaxProcessed
    /\ queue' = Tail(queue)
    /\ dedupe' = AfterShouldEmit(dedupe, Head(queue))
    /\ last_drained' = [last_drained EXCEPT ![Head(queue).ct_log_url[1]] =
                            Head(queue).cert_index]
    /\ drained' = [drained EXCEPT ![Head(queue).ct_log_url[1]] =
                       Append(@, Head(queue).cert_index[1])]
    /\ UNCHANGED <<extvars, callvars, cfgvars, log, state, save_counter, file, health, shutdown, cpc,
                   pollvars, accepted, send_failed>>

\* run, lines 115 and 131: recv returns None (queue empty, no sender left).
ConsumerDone ==
    /\ cpc = "running"
    /\ queue = <<>>
    /\ AllPollersExited
    /\ cpc' = "done"
    /\ UNCHANGED <<extvars, callvars, cfgvars, log, state, save_counter, file, health, shutdown, queue,
                   dedupe, pollvars, histvars>>

\* The task that runs the coordinator is torn down (a sink panics): the
\* receiver is dropped with whatever the queue still holds.
ReceiverDropped ==
    /\ cpc = "running"
    /\ cpc' = "dropped"
    /\ queue' = <<>>
    /\ UNCHANGED <<extvars, callvars, cfgvars, log, state, save_counter, file, health, shutdown, dedupe,
                   pollvars, histvars>>

\* CtLogCoordinator::shutdown: shutdown_tx.send(true).
Shutdown ==
    /\ ~shutdown
    /\ shutdown' = TRUE
    /\ UNCHANGED <<extvars, callvars, cfgvars, log, state, save_counter, file, health, cpc, queue, dedupe,
                   pollvars, histvars>>

(***************************************************************************)
(* The match pipeline: handle_cert_entry (ct_log/coordinator.rs) and       *)
(* OutputManager::emit (output/mod.rs).                                    *)
(***************************************************************************)
\* EmittedDomains without the break: every matching domain is emitted.
RECURSIVE EmittedDomainsNoBreak(_, _, _)
EmittedDomainsNoBreak(ds, wl, rf) ==
    IF ds = <<>> THEN <<>>
    ELSE IF matches_domain(wl, Head(ds)) /\ (rf = None \/ RootShouldEmit(rf[1], Head(ds)))
         THEN <<Head(ds)>> \o EmittedDomainsNoBreak(Tail(ds), wl, rf)
         ELSE EmittedDomainsNoBreak(Tail(ds), wl, rf)

\* EmittedDomains where a domain the root filter rejects ends the loop.
RECURSIVE EmittedDomainsStopAtRejected(_, _, _)
EmittedDomainsStopAtRejected(ds, wl, rf) ==
    IF ds = <<>> THEN <<>>
    ELSE IF matches_domain(wl, Head(ds))
         THEN IF rf # None /\ ~RootShouldEmit(rf[1], Head(ds)) THEN <<>> ELSE <<Head(ds)>>
         ELSE EmittedDomainsStopAtRejected(Tail(ds), wl, rf)

\* handle_cert_entry, lines 167-207: the loop over the domains ds. A domain
\* that does not match goes to the next one, a matching domain the root
\* filter rejects takes `continue`, the first other one is emitted and the
\* loop breaks. The value is the sequence of matched domains emitted.
RECURSIVE EmittedDomains(_, _, _)
EmittedDomains(ds, wl, rf) ==
    IF ds = <<>> THEN <<>>
    ELSE IF matches_domain(wl, Head(ds))
         THEN IF rf # None /\ ~RootShouldEmit(rf[1], Head(ds))
              THEN EmittedDomains(Tail(ds), wl, rf)
              ELSE <<Head(ds)>>
         ELSE EmittedDomains(Tail(ds), wl, rf)

\* handle_cert_entry, lines 159-162: None or an empty list returns at once.
DomainsOf(data) == IF data.all_domains = None THEN <<>> ELSE data.all_domains[1]

\* EmitCalls that stops at the first sink that fails.
EmitCallsAbortOnError(n, o) ==
    LET bad == {i \in 1..n : ~o[i]}
        last == IF bad = {} THEN n ELSE CHOOSE i \in bad : \A j \in bad : i <= j
    IN  [i \in 1..last |-> [sink |-> i, ok |-> o[i]]]

\* OutputManager::emit, lines 52-57: the emit_match calls it makes, in order,
\* when handler i answers o[i] (TRUE for Ok).
EmitCalls(n, o) == [i \in 1..n |-> [sink |-> i, ok |-> o[i]]]

\* EmitResult that fails as soon as one sink failed.
EmitResultAnyError(n, o) == IF \E i \in 1..n : ~o[i] THEN "Err" ELSE "Ok"

\* EmitResult that fails when every registered sink failed.
EmitResultAllFailed(n, o) == IF n >= 1 /\ \A i \in 1..n : ~o[i] THEN "Err" ELSE "Ok"

\* OutputManager::emit, lines 50-66: the value it returns. last_error is
\* Some when a handler failed; Err is returned only with exactly one handler.
EmitResult(n, o) ==
    LET last_error == \E i \in 1..n : ~o[i]
    IN  IF last_error /\ n = 1 THEN "Err" ELSE "Ok"

\* The records the pollers send in a run of the match pipeline.
MatchInputs ==
    {[cert_index |-> Some(i), leaf_cert |-> None, ct_log_url |-> Some("A"),
      is_precert |-> FALSE, all_domains |-> ds] : i \in {100, 101}, ds \in DomainLists}

\* A poller's send puts the record data on the queue.
PollerSends(data) ==
    /\ cpc = "running"
    /\ Len(queue) < QueueCap
    /\ Len(handled) + Len(queue) < MaxHandled
    /\ queue' = Append(queue, data)
    /\ UNCHANGED <<extvars, callvars, cfgvars, log, state, save_counter, file, health,
                   shutdown, cpc, dedupe, pollvars, histvars>>

\* run, lines 115-129, with handle_cert_entry in full: recv returns the head
\* of the queue, the dedupe step (always taken), the loop over the domains,
\* and for an emitted domain OutputManager::emit, whose handlers answer o; an
\* Err of emit is logged and the consumer goes back to recv.
ConsumeMatch(o) ==
    /\ cpc = "running"
    /\ queue # <<>>
    /\ LET data == Head(queue)
           pass == ShouldEmit(dedupe, data)
           ms == IF pass THEN EmittedDomains(DomainsOf(data), watchlist, root_filter)
                 ELSE <<>>
       IN  handled' = Append(handled,
               [data |-> data,
                deduped |-> ~pass,
                matches |-> [j \in 1..Len(ms) |->
                                [matched_domain |-> ms[j],
                                 calls |-> EmitCalls(sinks, o),
                                 result |-> EmitResult(sinks, o)]]])
    /\ dedupe' = AfterShouldEmit(dedupe, Head(queue))
    /\ queue' = Tail(queue)
    /\ UNCHANGED <<dedupe_enabled, watchlist, root_filter, sinks, healthvars, mainvars, fnvars, storevars, guardvars, callvars, cfgvars, log,
                   state, save_counter, file, health, shutdown, cpc, pollvars, histvars>>

(***************************************************************************)
(* The health tracker alone, with a clock (ct_log/health.rs).              *)
(***************************************************************************)
\* The steps, in seconds, the clock makes between two calls.
TimeSteps == {1, 60, 239}

\* record_success(l) is called.
HealthSuccess(l) ==
    /\ ~panicked[l]
    /\ record_success(l)
    /\ poll_answer' = [poll_answer EXCEPT ![l] = None]
    /\ UNCHANGED <<matchvars, mainvars, fnvars, storevars, guardvars, failure_threshold, overflow_checks, since_failure, panicked,
                   callvars, cfgvars, log, state, save_counter, file, shutdown, cpc, queue,
                   dedupe, pollvars, histvars>>

\* record_failure(l, error) is called: last_failure becomes now. Where
\* 60 * 2^(failure_count - 1) overflows, a build with overflow checks panics
\* inside next_backoff and the calling task ends.
HealthFailure(l) ==
    /\ ~panicked[l]
    /\ HealthInfo(l).failure_count < MaxConsecutive
    /\ IF overflow_checks /\ BackoffOverflows(HealthInfo(l).failure_count)
       THEN /\ record_failure_panics(l)
            /\ panicked' = [panicked EXCEPT ![l] = TRUE]
       ELSE /\ record_failure(l)
            /\ panicked' = panicked
    /\ since_failure' = [since_failure EXCEPT ![l] = Some(0)]
    /\ poll_answer' = [poll_answer EXCEPT ![l] = None]
    /\ UNCHANGED <<matchvars, mainvars, fnvars, storevars, guardvars, failure_threshold, overflow_checks, callvars, cfgvars, log,
                   state, save_counter, file, shutdown, cpc, queue, dedupe, pollvars,
                   histvars>>

\* d seconds pass.
HealthTick(d) ==
    /\ \E l \in Logs : since_failure[l] # None
    /\ \A l \in Logs : since_failure[l] # None => since_failure[l][1] + d <= MaxSince
    /\ since_failure' = [l \in Logs |-> IF since_failure[l] = None THEN None
                                        ELSE Some(since_failure[l][1] + d)]
    /\ health' = [l \in DOMAIN health |->
                     IF since_failure[l] = None THEN health[l]
                     ELSE [health[l] EXCEPT !.elapsed =
                              since_failure[l][1] + d >= health[l].current_backoff]]
    /\ poll_answer' = [l \in Logs |-> None]
    /\ UNCHANGED <<matchvars, mainvars, fnvars, storevars, guardvars, failure_threshold, overflow_checks, panicked, callvars,
                   cfgvars, log, state, save_counter, file, shutdown, cpc, queue, dedupe,
                   pollvars, histvars>>

\* should_poll(l) is called and answers.
HealthShouldPoll(l) ==
    /\ poll_answer[l] = None
    /\ poll_answer' = [poll_answer EXCEPT ![l] = Some(should_poll_at(l))]
    /\ UNCHANGED <<matchvars, mainvars, fnvars, storevars, guardvars, failure_threshold, overflow_checks, since_failure, panicked,
                   callvars, cfgvars, log, state, save_counter, file, health, shutdown, cpc,
                   queue, dedupe, pollvars, histvars>>

(***************************************************************************)
(* main after CtLogCoordinator::new (main.rs): it awaits coordinator.run   *)
(* and then saves the final state. main registers no signal handler and    *)
(* nothing calls CtLogCoordinator::shutdown (run takes the coordinator by  *)
(* value), so a SIGINT or SIGTERM has its default disposition.             *)
(***************************************************************************)
\* main.rs 449-456 and coordinator.rs 133-140: the consumer loop has ended,
\* run joins the monitor tasks and returns to main.
RunReturns ==
    /\ mpc = "run"
    /\ cpc = "done"
    /\ AllPollersExited
    /\ mpc' = "final_save"
    /\ UNCHANGED <<matchvars, healthvars, fnvars, storevars, guardvars, signalled, callvars, cfgvars, log, state, save_counter,
                   file, health, shutdown, cpc, queue, dedupe, pollvars, histvars>>

\* main.rs 468, state_manager.save().await?: StateManager::save writes the
\* cursor map to a temporary file and renames it over the state file; when
\* the write or the rename fails the state file keeps its old content and
\* main returns the error.
FinalSave ==
    /\ mpc = "final_save"
    /\ \/ file' = state /\ mpc' = "returned"
       \/ file' = file /\ mpc' = "failed"
    /\ UNCHANGED <<matchvars, healthvars, fnvars, storevars, guardvars, signalled, callvars, cfgvars, log, state, save_counter,
                   health, shutdown, cpc, queue, dedupe, pollvars, histvars>>

\* The operator sends SIGINT or SIGTERM while main awaits run or saves: no
\* handler is installed, the process is terminated with all its tasks. The
\* shutdown channel is not written and the state file is not touched.
OperatorSignal ==
    /\ mpc \in {"run", "final_save"}
    /\ signalled' = TRUE
    /\ mpc' = "killed"
    /\ pc' = [l \in Logs |-> IF pc[l] \in {"none", "exited"} THEN pc[l] ELSE "killed"]
    /\ cpc' = IF cpc = "running" THEN "killed" ELSE cpc
    /\ UNCHANGED <<matchvars, healthvars, fnvars, storevars, guardvars, callvars, cfgvars, log, state, save_counter, file,
                   health, shutdown, queue, dedupe, sth, last_index, req, entries, offset,
                   histvars>>

(***************************************************************************)
(* The environment: the logs and the clock.                                *)
(***************************************************************************)
\* Log l appends an entry of shape k (logs are append-only).
LogAppend(l, k) ==
    /\ Len(log[l]) < MaxTree
    /\ log' = [log EXCEPT ![l] = Append(@, k)]
    /\ UNCHANGED <<extvars, callvars, cfgvars, state, save_counter, file, health, shutdown, cpc, queue,
                   dedupe, pollvars, histvars>>

\* Time passes: the backoff of a failed log has elapsed since its last failure.
BackoffElapses(l) ==
    /\ l \in DOMAIN health
    /\ ~health[l].elapsed
    /\ health' = [health EXCEPT ![l].elapsed = TRUE]
    /\ UNCHANGED <<extvars, callvars, cfgvars, log, state, save_counter, file, shutdown, cpc, queue, dedupe,
                   pollvars, histvars>>

(***************************************************************************)
(* Specifications.                                                         *)
(***************************************************************************)
\* The entry sequences of length at most n over the shapes ks.
RECURSIVE SeqsUpTo(_, _)
SeqsUpTo(ks, n) ==
    IF n = 0 THEN {<<>>}
    ELSE SeqsUpTo(ks, n - 1) \cup
         {Append(q, k) : q \in {x \in SeqsUpTo(ks, n - 1) : Len(x) = n - 1}, k \in ks}

\* The state after StateManager::new and CtLogCoordinator::new on the log
\* list u: the cursor map is the one the state file holds (empty when there
\* is no file, otherwise cursors an earlier run reached on these logs), the
\* logs hold entries of the shapes ks.
InitPipelineRest(u, ks, be) ==
    /\ urls = u
    /\ kinds = ks
    /\ backend = be
    /\ batch_size \in 1..MaxBatch
    /\ parse_precerts \in BOOLEAN
    /\ log \in [Logs -> SeqsUpTo(ks, InitTree)]
    /\ \A l \in Logs \ u : log[l] = <<>>
    /\ health = EmptyMap
    /\ shutdown = FALSE
    /\ cpc = "running"
    /\ queue = <<>>
    /\ dedupe = {}
    /\ pc = [l \in Logs |-> IF l \in u THEN "loop" ELSE "none"]
    /\ sth = [l \in Logs |-> None]
    /\ last_index = [l \in Logs |-> 0]
    /\ req = [l \in Logs |-> None]
    /\ entries = [l \in Logs |-> 0]
    /\ offset = [l \in Logs |-> 0]
    /\ accepted = [l \in Logs |-> {}]
    /\ send_failed = [l \in Logs |-> FALSE]
    /\ last_drained = [l \in Logs |-> None]
    /\ drained = [l \in Logs |-> <<>>]
    /\ dpc = [c \in Callers |-> "idle"]
    /\ ddata = [c \in Callers |-> None]
    /\ dfound = [c \in Callers |-> FALSE]
    /\ dmutex = None
    /\ dcalls = <<>>
    /\ signalled = FALSE
    /\ mpc = "run"

\* StateManager::new, lines 19-47: the map is what the state file holds and
\* the save counter is 0.
InitPipeline(u, ks, be) ==
    /\ InitPipelineRest(u, ks, be)
    /\ \E tracked \in SUBSET u :
          /\ file \in [tracked -> 0..InitTree]
          /\ \A l \in tracked : file[l] <= Len(log[l])
    /\ state = file
    /\ save_counter = 0

\* The match pipeline as the runs of the pollers leave it: one handler, no
\* root filter, nothing handled.
MatchIdle ==
    /\ dedupe_enabled = TRUE
    /\ watchlist = [global_hosts |-> {}, global_domains |-> {}, programs |-> <<>>]
    /\ root_filter = None
    /\ sinks = 1
    /\ handled = <<>>

\* The health tracker of CtLogCoordinator::new: LogHealthTracker::default().
HealthIdle ==
    /\ failure_threshold = FailureThreshold
    /\ overflow_checks = FALSE
    /\ since_failure = [l \in Logs |-> None]
    /\ poll_answer = [l \in Logs |-> None]
    /\ panicked = [l \in Logs |-> FALSE]

\* No task is inside the StateManager and there is no temporary file.
NoTmp == [kind |-> "absent", map |-> EmptyMap]

StoreIdle ==
    /\ spc = [t \in StoreTasks |-> "idle"]
    /\ sarg = [t \in StoreTasks |-> 0]
    /\ slock = None
    /\ tmp = NoTmp
    /\ held = [l \in Logs |-> {}]

\* No task is at a guard.
Free == [holders |-> {}, exclusive |-> FALSE]

GuardIdle ==
    /\ gpc = [t \in GuardTasks |-> 1]
    /\ guard = [g \in Guards |-> Free]

\* No function is under call.
FnIdle ==
    /\ call = None
    /\ ret = None

InitWith(u, ks, be) == InitPipeline(u, ks, be) /\ MatchIdle /\ HealthIdle /\ FnIdle /\ StoreIdle /\ GuardIdle

\* One step of the poller of log l with the file-backed cursor store.
PollerStep(l) ==
    \/ MonitorShutdown(l)
    \/ MonitorSkip(l)
    \/ MonitorSkipWake(l)
    \/ GetSthOk(l)
    \/ GetSthErr(l)
    \/ GetLastIndex(l)
    \/ \E m \in 0..MaxBatch : GetEntriesOk(l, m)
    \/ GetEntriesErr(l)
    \/ ProcessEntry(l)
    \/ ProcessDone(l)
    \/ SendOk(l)
    \/ UpdateIndex(l)
    \/ RecordSuccess(l)
    \/ RecordFailure(l)
    \/ SleepElapsed(l)
    \/ SleepShutdown(l)

\* One poller, file-backed cursor store.
Init == InitWith({"A"}, {"x509", "precert"}, "file")

Next ==
    \/ \E l \in urls : MonitorShutdown(l)
    \/ \E l \in urls : MonitorSkip(l)
    \/ \E l \in urls : MonitorSkipWake(l)
    \/ \E l \in urls : GetSthOk(l)
    \/ \E l \in urls : GetSthErr(l)
    \/ \E l \in urls : GetLastIndex(l)
    \/ \E l \in urls : \E m \in 0..MaxBatch : GetEntriesOk(l, m)
    \/ \E l \in urls : GetEntriesErr(l)
    \/ \E l \in urls : ProcessEntry(l)
    \/ \E l \in urls : ProcessDone(l)
    \/ \E l \in urls : SendOk(l)
    \/ \E l \in urls : UpdateIndex(l)
    \/ \E l \in urls : RecordSuccess(l)
    \/ \E l \in urls : RecordFailure(l)
    \/ \E l \in urls : SleepElapsed(l)
    \/ \E l \in urls : SleepShutdown(l)
    \/ Consume
    \/ ConsumerDone
    \/ Shutdown
    \/ \E l \in urls : \E k \in kinds : LogAppend(l, k)
    \/ \E l \in urls : BackoffElapses(l)

Spec == Init /\ [][Next]_vars

(***************************************************************************)
(* The pollers under fair scheduling, on logs whose get-sth and            *)
(* get-entries calls always succeed and return the requested range.        *)
(***************************************************************************)
\* get_entries_with_retry returns every entry of the requested range.
GetEntriesFull(l) ==
    /\ pc[l] = "get_entries"
    /\ GetEntriesOk(l, Available(l, RequestOf(l)))

\* One step of the poller of log l when no call fails and nobody shuts down.
PollerLive(l) ==
    \/ GetSthOk(l)
    \/ GetLastIndex(l)
    \/ GetEntriesFull(l)
    \/ ProcessEntry(l)
    \/ ProcessDone(l)
    \/ SendOk(l)
    \/ UpdateIndex(l)
    \/ RecordSuccess(l)
    \/ SleepElapsed(l)

InitLive == InitWith({"A"}, Kinds, "file")

NextLive ==
    \/ \E l \in urls : GetSthOk(l)
    \/ \E l \in urls : GetLastIndex(l)
    \/ \E l \in urls : GetEntriesFull(l)
    \/ \E l \in urls : ProcessEntry(l)
    \/ \E l \in urls : ProcessDone(l)
    \/ \E l \in urls : SendOk(l)
    \/ \E l \in urls : UpdateIndex(l)
    \/ \E l \in urls : RecordSuccess(l)
    \/ \E l \in urls : SleepElapsed(l)
    \/ Consume
    \/ \E l \in urls : \E k \in kinds : LogAppend(l, k)

\* The runtime schedules every spawned poller and the consumer again and
\* again; the logs may stop growing at any time.
LiveSpec ==
    /\ InitLive
    /\ [][NextLive]_vars
    /\ \A l \in Logs : WF_vars(PollerLive(l))
    /\ WF_vars(Consume)

(***************************************************************************)
(* The pipeline when the receiver can be dropped under the pollers.        *)
(***************************************************************************)
InitClosed == InitWith({"A"}, {"x509", "x509_nodomains"}, "file")

NextClosed ==
    \/ Next
    \/ ReceiverDropped
    \/ \E l \in urls : SendClosed(l)

SpecClosed == InitClosed /\ [][NextClosed]_vars

(***************************************************************************)
(* The pipeline on the relational cursor store, whose calls can fail.      *)
(***************************************************************************)
InitDb == InitWith({"A"}, {"x509", "unknown_type"}, "database")

NextDb ==
    \/ Next
    \/ \E l \in urls : GetLastIndexDbErr(l)
    \/ \E l \in urls : UpdateIndexDbErr(l)

SpecDb == InitDb /\ [][NextDb]_vars

(***************************************************************************)
(* The dedupe set alone, called through two clones.                        *)
(***************************************************************************)
InitDedupe == InitWith({}, {}, "file") /\ batch_size = 1 /\ parse_precerts

NextDedupe ==
    \/ \E c \in Callers : \E data \in DedupeInputs : DedupeCall(c, data)
    \/ \E c \in Callers : DedupeLock(c)
    \/ \E c \in Callers : DedupeContains(c)
    \/ \E c \in Callers : DedupeReturn(c)

SpecDedupe == InitDedupe /\ [][NextDedupe]_vars

(***************************************************************************)
(* The match pipeline alone: records arrive on the queue, the consumer     *)
(* handles them.                                                           *)
(***************************************************************************)
InitMatch ==
    /\ InitPipeline({}, {}, "file") /\ batch_size = 1 /\ parse_precerts
    /\ HealthIdle
    /\ FnIdle
    /\ StoreIdle
    /\ GuardIdle
    /\ dedupe_enabled \in BOOLEAN
    /\ watchlist \in Watchlists
    /\ root_filter \in RootFilters
    /\ sinks \in 0..MaxSinks
    /\ handled = <<>>

NextMatch ==
    \/ \E data \in MatchInputs : PollerSends(data)
    \/ \E o \in [1..sinks -> BOOLEAN] : ConsumeMatch(o)

SpecMatch == InitMatch /\ [][NextMatch]_vars

(***************************************************************************)
(* The health tracker alone: one log, any threshold, either build.         *)
(***************************************************************************)
InitHealth ==
    /\ InitPipeline({}, {}, "file") /\ batch_size = 1 /\ parse_precerts
    /\ MatchIdle
    /\ FnIdle
    /\ StoreIdle
    /\ GuardIdle
    /\ failure_threshold \in 1..MaxThreshold
    /\ overflow_checks \in BOOLEAN
    /\ since_failure = [l \in Logs |-> None]
    /\ poll_answer = [l \in Logs |-> None]
    /\ panicked = [l \in Logs |-> FALSE]

NextHealth ==
    \/ HealthSuccess("A")
    \/ HealthFailure("A")
    \/ \E d \in TimeSteps : HealthTick(d)
    \/ HealthShouldPoll("A")

SpecHealth == InitHealth /\ [][NextHealth]_vars

(***************************************************************************)
(* The program from main's call of coordinator.run to its end, under fair  *)
(* scheduling, with zero or one log. Nothing writes the shutdown channel,  *)
(* so the pollers' shutdown branches are dead here.                        *)
(***************************************************************************)
InitMain == \E u \in {{}, {"A"}} : InitWith(u, {"x509"}, "file")

NextMain ==
    \/ \E l \in urls : MonitorSkip(l)
    \/ \E l \in urls : MonitorSkipWake(l)
    \/ \E l \in urls : GetSthOk(l)
    \/ \E l \in urls : GetSthErr(l)
    \/ \E l \in urls : GetLastIndex(l)
    \/ \E l \in urls : \E m \in 0..MaxBatch : GetEntriesOk(l, m)
    \/ \E l \in urls : GetEntriesErr(l)
    \/ \E l \in urls : ProcessEntry(l)
    \/ \E l \in urls : ProcessDone(l)
    \/ \E l \in urls : SendOk(l)
    \/ \E l \in urls : UpdateIndex(l)
    \/ \E l \in urls : RecordSuccess(l)
    \/ \E l \in urls : RecordFailure(l)
    \/ \E l \in urls : SleepElapsed(l)
    \/ Consume
    \/ ConsumerDone
    \/ RunReturns
    \/ FinalSave
    \/ OperatorSignal
    \/ \E l \in urls : \E k \in kinds : LogAppend(l, k)
    \/ \E l \in urls : BackoffElapses(l)

\* The runtime schedules every spawned poller, the consumer and main again
\* and again; the operator, the logs and the clock are under no obligation.
MainFairness ==
    /\ \A l \in Logs : WF_vars(PollerStep(l))
    /\ WF_vars(Consume)
    /\ WF_vars(ConsumerDone)
    /\ WF_vars(RunReturns)
    /\ WF_vars(FinalSave)

SpecMain == InitMain /\ [][NextMain]_vars /\ MainFairness

(***************************************************************************)
(* The same program with a caller of CtLogCoordinator::shutdown in place   *)
(* of the operator's signal (no such caller exists in the repository).     *)
(***************************************************************************)
NextBroadcast ==
    \/ \E l \in urls : PollerStep(l)
    \/ Consume
    \/ ConsumerDone
    \/ RunReturns
    \/ FinalSave
    \/ Shutdown
    \/ \E l \in urls : \E k \in kinds : LogAppend(l, k)
    \/ \E l \in urls : BackoffElapses(l)

SpecBroadcast == InitMain /\ [][NextBroadcast]_vars /\ MainFairness

(***************************************************************************)
(* Log discovery (ct_log/log_list.rs, ct_log/types.rs) and the selection   *)
(* of the log URLs in main (main.rs). A StateWrapper is the set of its     *)
(* fields that are Some; the logs of all operators form one sequence.      *)
(***************************************************************************)
\* StateWrapper::is_usable.
is_usable(wrapper) == "usable" \in wrapper \/ "qualified" \in wrapper

\* is_acceptable without the include_readonly and include_pending flags.
is_acceptable_ignoring_flags(wrapper, include_readonly, include_pending) ==
    is_usable(wrapper) \/ "readonly" \in wrapper \/ "pending" \in wrapper

\* StateWrapper::is_acceptable.
is_acceptable(wrapper, include_readonly, include_pending) ==
    \/ is_usable(wrapper)
    \/ include_readonly /\ "readonly" \in wrapper
    \/ include_pending /\ "pending" \in wrapper

\* fetch_usable_logs, lines 58-69 and 71: the log goes to the list.
LogAccepted(lg, include_readonly, include_pending, include_all) ==
    /\ IF include_all THEN lg.url # ""
       ELSE IF lg.state = None THEN FALSE
       ELSE is_acceptable(lg.state[1], include_readonly, include_pending)
    /\ lg.url # ""

\* LogListFetcher::fetch_usable_logs on the served list: the URLs of the
\* accepted logs in list order.
RECURSIVE fetch_usable_logs(_, _, _, _)
fetch_usable_logs(listing, include_readonly, include_pending, include_all) ==
    IF listing = <<>> THEN <<>>
    ELSE (IF LogAccepted(Head(listing), include_readonly, include_pending, include_all)
          THEN <<Head(listing).url>> ELSE <<>>)
         \o fetch_usable_logs(Tail(listing), include_readonly, include_pending, include_all)

\* Vec::contains.
Contains(seq, x) == \E i \in 1..Len(seq) : seq[i] = x

\* fetch_logs_with_additional, lines 127-133: the loop over additional_logs.
RECURSIVE MergeAdditional(_, _)
MergeAdditional(logs, additional_logs) ==
    IF additional_logs = <<>> THEN logs
    ELSE MergeAdditional(
            IF Head(additional_logs) # "" /\ ~Contains(logs, Head(additional_logs))
            THEN Append(logs, Head(additional_logs)) ELSE logs,
            Tail(additional_logs))

\* LogListFetcher::fetch_logs_with_additional.
fetch_logs_with_additional(listing, include_readonly, include_pending, include_all, additional_logs) ==
    MergeAdditional(fetch_usable_logs(listing, include_readonly, include_pending, include_all),
                    additional_logs)

\* Iterator::take(n).collect().
Take(seq, n) == SubSeq(seq, 1, Min(n, Len(seq)))

\* main, lines 401-433: custom_logs replaces the fetched list; the fetched
\* list, merged with additional_logs when configured, is cut to
\* max_concurrent_logs.
log_urls_of(cfg) ==
    IF cfg.custom_logs # None THEN cfg.custom_logs[1]
    ELSE Take(IF cfg.additional_logs # None
              THEN fetch_logs_with_additional(cfg.listing, cfg.include_readonly,
                       cfg.include_pending, cfg.include_all, cfg.additional_logs[1])
              ELSE fetch_usable_logs(cfg.listing, cfg.include_readonly,
                       cfg.include_pending, cfg.include_all),
              cfg.max_concurrent_logs)

\* The entries of seq at the positions in keep, in order.
RECURSIVE Keep(_, _, _)
Keep(seq, keep, i) ==
    IF i > Len(seq) THEN <<>>
    ELSE (IF i \in keep THEN <<seq[i]>> ELSE <<>>) \o Keep(seq, keep, i + 1)

(***************************************************************************)
(* Calls of single functions. Everything but call and ret stays as         *)
(* InitPipeline leaves it.                                                 *)
(***************************************************************************)
pipevars == <<storevars, guardvars, callvars, cfgvars, log, state, save_counter, file, health, shutdown, cpc, queue,
              dedupe, pollvars, histvars>>

\* No log is configured and nothing runs.
PipelineIdle ==
    /\ InitPipeline({}, {}, "file") /\ batch_size = 1 /\ parse_precerts
    /\ MatchIdle
    /\ HealthIdle
    /\ StoreIdle
    /\ GuardIdle

\* The call returns r.
Return(r) ==
    /\ call # None
    /\ ret = None
    /\ ret' = Some(r)
    /\ UNCHANGED <<matchvars, healthvars, mainvars, pipevars, call>>

(***************************************************************************)
(* Watchlist::matches_domain on a watchlist of one rule (watchlist.rs).    *)
(***************************************************************************)
\* The characters of the hosts and of the patterns.
HostChars == {"a", "A", "b", "."}
PatternChars == {"a", "A", ".", "*"}

\* A watchlist whose only rule is the global domain pattern p.
PatternWatchlist(p) == [global_hosts |-> {}, global_domains |-> {p}, programs |-> <<>>]

\* A watchlist whose only rule is the global exact host p.
HostWatchlist(p) == [global_hosts |-> {p}, global_domains |-> {}, programs |-> <<>>]

InitPattern ==
    /\ PipelineIdle
    /\ call \in {Some([host |-> h, pattern |-> p]) :
                    h \in SeqsUpTo(HostChars, MaxName), p \in SeqsUpTo(PatternChars, MaxName)}
    /\ ret = None

\* matches_domain(host) with pattern as the only global domain.
MatchesDomainByPattern ==
    Return([rule |-> "domain",
            result |-> matches_domain(PatternWatchlist(call[1].pattern), call[1].host)])

\* matches_domain(host) with pattern as the only global host.
MatchesDomainByHost ==
    Return([rule |-> "host",
            result |-> matches_domain(HostWatchlist(call[1].pattern), call[1].host)])

NextPattern ==
    \/ MatchesDomainByPattern
    \/ MatchesDomainByHost

SpecPattern == InitPattern /\ [][NextPattern]_vars

(***************************************************************************)
(* Watchlist::matches_domain on the watchlist of the unit tests            *)
(* (watchlist.rs, tests::create_test_watchlist).                           *)
(***************************************************************************)
\* The labels the looked-up hosts are made of.
LabelFoo == <<"f", "o", "o">>
LabelBar == <<"b", "a", "r">>
LabelBaz == <<"b", "a", "z">>
LabelWww == <<"w", "w", "w">>
LabelIbm == <<"i", "b", "m">>
LabelCom == <<"c", "o", "m">>
LabelHilton == <<"h", "i", "l", "t", "o", "n">>
LabelIo == <<"i", "o">>
Labels == {LabelFoo, LabelBar, LabelBaz, LabelWww, LabelIbm, LabelCom}

\* The labels joined with dots.
RECURSIVE Join(_)
Join(ls) ==
    IF Len(ls) = 0 THEN <<>>
    ELSE IF Len(ls) = 1 THEN ls[1]
    ELSE ls[1] \o <<".">> \o Join(Tail(ls))

\* create_test_watchlist: the global rules and the programs IBM and Hilton
\* (the fixture gives its programs no hosts).
TestWatchlist ==
    [global_hosts |-> {Join(<<<<"e", "x", "a", "c", "t">>, <<"h", "o", "s", "t">>, LabelCom>>),
                       Join(<<<<"a", "p", "i">>, <<"s", "e", "r", "v", "i", "c", "e">>, LabelIo>>)},
     global_domains |-> {<<"*", ".">> \o Join(<<LabelIbm, LabelCom>>),
                         <<".">> \o Join(<<LabelHilton, LabelCom>>),
                         Join(<<<<"e", "x", "a", "m", "p", "l", "e">>, LabelCom>>)},
     programs |-> <<[name |-> "IBM", hosts |-> {},
                     domains |-> {<<".">> \o Join(<<LabelIbm, LabelCom>>)}],
                    [name |-> "Hilton", hosts |-> {},
                     domains |-> {<<".">> \o Join(<<LabelHilton, LabelCom>>),
                                  <<".">> \o Join(<<LabelHilton, LabelIo>>)}]>>]

InitFixture ==
    /\ PipelineIdle
    /\ call \in {Some([labels |-> ls]) : ls \in SeqsUpTo(Labels, MaxLabels) \ {<<>>}}
    /\ ret = None

\* watchlist.matches_domain(host) on the fixture.
FixtureMatchesDomain ==
    Return(matches_domain(TestWatchlist, Join(call[1].labels)))

NextFixture == FixtureMatchesDomain

SpecFixture == InitFixture /\ [][NextFixture]_vars

(***************************************************************************)
(* The watchlist under runtime additions and program lookups               *)
(* (watchlist.rs; the additions come from platforms/sync.rs).              *)
(***************************************************************************)
\* The program names, patterns, hosts and looked-up domains of the runs.
ProgramNames == {"P", "Q", "R"}
AddedDomains == {<<"*", ".", "a">>, <<"b">>}
AddedHosts == {<<"A">>}
LookedUp == {<<"a">>, <<"b", ".", "a">>, <<"B">>}

\* The watchlists of the configuration: the global rule .a, and no program,
\* one program, or two programs whose rules overlap.
ConfiguredWatchlists ==
    {[global_hosts |-> {}, global_domains |-> {<<".", "a">>}, programs |-> ps] :
        ps \in {<<>>,
                <<[name |-> "P", hosts |-> {}, domains |-> {<<"*", ".", "a">>}]>>,
                <<[name |-> "Q", hosts |-> {}, domains |-> {<<"b">>}],
                  [name |-> "P", hosts |-> {}, domains |-> {<<".", "a">>}]>>}}

InitPrograms ==
    /\ InitPipeline({}, {}, "file") /\ batch_size = 1 /\ parse_precerts
    /\ HealthIdle
    /\ FnIdle
    /\ StoreIdle
    /\ GuardIdle
    /\ dedupe_enabled = TRUE
    /\ watchlist \in ConfiguredWatchlists
    /\ root_filter = None
    /\ sinks = 1
    /\ handled = <<>>

\* The sync task adds a domain pattern to a program.
AddDomainToProgram(domain, program_name) ==
    /\ watchlist' = add_domain_to_program(watchlist, domain, program_name)
    /\ UNCHANGED <<dedupe_enabled, root_filter, sinks, handled, healthvars, mainvars, fnvars, storevars, guardvars,
                   pipevars>>

\* The sync task adds an exact host to a program.
AddHostToProgram(host, program_name) ==
    /\ watchlist' = add_host_to_program(watchlist, host, program_name)
    /\ UNCHANGED <<dedupe_enabled, root_filter, sinks, handled, healthvars, mainvars, fnvars, storevars, guardvars,
                   pipevars>>

\* The consumer calls program_for_domain(domain) under the watchlist's lock.
ProgramForDomain(domain) ==
    /\ call' = Some([domain |-> domain])
    /\ ret' = Some(program_for_domain(watchlist, domain))
    /\ UNCHANGED <<matchvars, healthvars, mainvars, pipevars>>

NextPrograms ==
    \/ \E d \in AddedDomains : \E n \in ProgramNames : AddDomainToProgram(d, n)
    \/ \E h \in AddedHosts : \E n \in ProgramNames : AddHostToProgram(h, n)
    \/ \E d \in LookedUp : ProgramForDomain(d)

SpecPrograms == InitPrograms /\ [][NextPrograms]_vars

(***************************************************************************)
(* Log discovery alone: the fetcher on a served list.                      *)
(***************************************************************************)
\* The state objects of the served logs: absent, empty, one lifecycle
\* field, or two.
ListedStates ==
    {None, Some({}), Some({"usable"}), Some({"qualified"}), Some({"readonly"}),
     Some({"pending"}), Some({"retired"}), Some({"rejected"}),
     Some({"retired", "readonly"}), Some({"rejected", "pending"})}

\* The served logs.
ListedLogs == {[url |-> u, state |-> st] : u \in {"", "A"}, st \in ListedStates}

\* The additional_logs of the configuration.
AdditionalLists ==
    {None, Some(<<>>), Some(<<"">>), Some(<<"A">>), Some(<<"C">>), Some(<<"C", "C">>),
     Some(<<"A", "C">>)}

InitDiscovery ==
    /\ PipelineIdle
    /\ call \in {Some([listing |-> ls, include_readonly |-> ro, include_pending |-> pe,
                        include_all |-> al, additional_logs |-> ad]) :
                    ls \in SeqsUpTo(ListedLogs, MaxListed), ro \in BOOLEAN, pe \in BOOLEAN,
                    al \in BOOLEAN, ad \in AdditionalLists}
    /\ ret = None

\* main, lines 418-425: no additional_logs, fetch_usable_logs returns.
FetchUsableLogs ==
    /\ call # None
    /\ call[1].additional_logs = None
    /\ Return(fetch_usable_logs(call[1].listing, call[1].include_readonly,
                                call[1].include_pending, call[1].include_all))

\* main, lines 408-417: fetch_logs_with_additional returns.
FetchLogsWithAdditional ==
    /\ call # None
    /\ call[1].additional_logs # None
    /\ Return(fetch_logs_with_additional(call[1].listing, call[1].include_readonly,
                  call[1].include_pending, call[1].include_all, call[1].additional_logs[1]))

NextDiscovery ==
    \/ FetchUsableLogs
    \/ FetchLogsWithAdditional

SpecDiscovery == InitDiscovery /\ [][NextDiscovery]_vars

(***************************************************************************)
(* Startup: main selects the log URLs and CtLogCoordinator::new spawns the *)
(* monitors.                                                               *)
(***************************************************************************)
\* The logs the list URL serves at startup.
StartupLogs == {[url |-> u, state |-> st] : u \in {"A", "B"}, st \in {Some({"usable"}), Some({"retired"})}}

\* config.ct_logs: custom_logs, additional_logs and max_concurrent_logs.
StartupConfigs ==
    {[listing |-> ls, include_readonly |-> FALSE, include_pending |-> FALSE,
      include_all |-> al, additional_logs |-> ad, custom_logs |-> cu,
      max_concurrent_logs |-> mx] :
        ls \in SeqsUpTo(StartupLogs, MaxListed), al \in BOOLEAN,
        ad \in {None, Some(<<"B">>)},
        cu \in {None} \cup {Some(q) : q \in SeqsUpTo({"A", "B"}, MaxCustom)},
        mx \in 0..MaxCustom}

InitStartup ==
    /\ PipelineIdle
    /\ call \in {Some(cfg) : cfg \in StartupConfigs}
    /\ ret = None

\* main, lines 401-433: log_urls is computed.
SelectLogUrls ==
    /\ call # None
    /\ Return([log_urls |-> log_urls_of(call[1]), monitors |-> None])

\* main 436-443 and CtLogCoordinator::new: one monitor task is spawned for
\* every entry of log_urls whose LogMonitor::new returns Ok, in order.
CoordinatorNew ==
    /\ ret # None
    /\ ret[1].monitors = None
    /\ \E built \in SUBSET (1..Len(ret[1].log_urls)) :
          ret' = Some([ret[1] EXCEPT !.monitors = Some(Keep(ret[1].log_urls, built, 1))])
    /\ UNCHANGED <<matchvars, healthvars, mainvars, pipevars, call>>

NextStartup ==
    \/ SelectLogUrls
    \/ CoordinatorNew

SpecStartup == InitStartup /\ [][NextStartup]_vars

(***************************************************************************)
(* The retry wrappers of the log client (ct_log/client.rs): call holds the *)
(* locals of get_sth_with_retry or get_entries_with_retry, with the number *)
(* of requests sent and the sleeps taken so far.                           *)
(***************************************************************************)
\* Duration::from_secs(60), the cap of the wrapper's backoff, in seconds.
RetryBackoffCap == 60

InitRetry ==
    /\ PipelineIdle
    /\ call \in {Some([wrapper |-> w, max_retries |-> n, retries |-> 0, backoff |-> 1,
                        at |-> "request", requests |-> 0, slept |-> <<>>]) :
                    w \in {"get_sth_with_retry", "get_entries_with_retry"},
                    n \in 0..MaxRetries}
    /\ ret = None

\* The request succeeds: return Ok at once.
RetryRequestOk ==
    /\ call # None /\ ret = None
    /\ call[1].at = "request"
    /\ call' = Some([call[1] EXCEPT !.requests = @ + 1, !.at = "returned"])
    /\ ret' = Some("Ok")
    /\ UNCHANGED <<matchvars, healthvars, mainvars, pipevars>>

\* The request fails: retries += 1; with retries >= max_retries the error is
\* returned, otherwise the wrapper goes to sleep.
RetryRequestErr ==
    /\ call # None /\ ret = None
    /\ call[1].at = "request"
    /\ IF call[1].retries + 1 >= call[1].max_retries
       THEN /\ call' = Some([call[1] EXCEPT !.requests = @ + 1, !.retries = @ + 1,
                                            !.at = "returned"])
            /\ ret' = Some("Err")
       ELSE /\ call' = Some([call[1] EXCEPT !.requests = @ + 1, !.retries = @ + 1,
                                            !.at = "sleep"])
            /\ ret' = ret
    /\ UNCHANGED <<matchvars, healthvars, mainvars, pipevars>>

\* sleep(backoff) returns; backoff = min(backoff * 2, 60 s); next request.
RetrySleep ==
    /\ call # None /\ ret = None
    /\ call[1].at = "sleep"
    /\ call' = Some([call[1] EXCEPT !.slept = Append(@, call[1].backoff),
                                    !.backoff = Min(@ * 2, RetryBackoffCap),
                                    !.at = "request"])
    /\ ret' = ret
    /\ UNCHANGED <<matchvars, healthvars, mainvars, pipevars>>

NextRetry ==
    \/ RetryRequestOk
    \/ RetryRequestErr
    \/ RetrySleep

\* The runtime schedules the task inside the wrapper: a request gets its
\* answer and a sleep ends.
SpecRetry == InitRetry /\ [][NextRetry]_vars /\ WF_vars(NextRetry)

\* The wrapper while CtLogCoordinator::shutdown may write the shutdown
\* channel: the wrappers take no receiver of it (client.rs 114-178).
NextRetryCancel ==
    \/ NextRetry
    \/ Shutdown

SpecRetryCancel == InitRetry /\ [][NextRetryCancel]_vars /\ WF_vars(NextRetry)

(***************************************************************************)
(* CertificateParser::parse_log_entry on the decoded bytes of leaf_input   *)
(* and extra_data (cert_parser.rs 123-185). A read at an index outside the *)
(* buffer panics in Rust; the result then is "panic".                      *)
(***************************************************************************)
\* The longest leaf_input, the longest extra_data and the largest low byte of
\* a declared length.
MaxLeaf == 17
MaxExtra == 5
MaxDeclared == 3

\* buf[i] for a 0-based index i, -1 outside the buffer.
ByteAt(buf, i) == IF i >= 0 /\ i < Len(buf) THEN buf[i + 1] ELSE -1

\* &buf[a..b], <<-1>> when the range is not inside the buffer.
Slice(buf, a, b) == IF a <= b /\ b <= Len(buf) THEN SubSeq(buf, a + 1, b) ELSE <<-1>>

\* A read outside the buffer happened while r was computed.
Panicked(r) == r.entry_type < 0 \/ r.declared < 0 \/ r.der = <<-1>>

ParseErr(msg, t, d) == [outcome |-> msg, entry_type |-> t, declared |-> d, der |-> <<>>, is_precert |-> FALSE]

\* extract_full_cert_from_der(der, is_precert) is reached.
ParseDer(t, d, der, p) == [outcome |-> "der", entry_type |-> t, declared |-> d, der |-> der, is_precert |-> p]

\* A big-endian length of three bytes, -1 if one of them was read outside.
Be24(b1, b2, b3) == IF b1 < 0 \/ b2 < 0 \/ b3 < 0 THEN -1 ELSE b1 * 65536 + b2 * 256 + b3

\* A big-endian u16.
Be16(b1, b2) == IF b1 < 0 \/ b2 < 0 THEN -1 ELSE b1 * 256 + b2

\* parse_log_entry_bytes with the first length test one byte short.
parse_log_entry_bytes_short_test(leaf_bytes, extra_bytes, pp) ==
    IF Len(leaf_bytes) < 11 THEN ParseErr("Leaf input too short", 0, 0)
    ELSE LET entry_type == Be16(ByteAt(leaf_bytes, 10), ByteAt(leaf_bytes, 11)) IN
         CASE entry_type = 0 ->
                 IF Len(leaf_bytes) < 15 THEN ParseErr("x509_entry too short", entry_type, 0)
                 ELSE LET cert_len == Be24(ByteAt(leaf_bytes, 12), ByteAt(leaf_bytes, 13),
                                           ByteAt(leaf_bytes, 14))
                          end_pos == Min(15 + cert_len, Len(leaf_bytes))
                      IN ParseDer(entry_type, cert_len, Slice(leaf_bytes, 15, end_pos), FALSE)
           [] entry_type = 1 ->
                 IF ~pp THEN ParseErr("Precertificate parsing disabled", entry_type, 0)
                 ELSE IF Len(extra_bytes) < 3
                 THEN ParseErr("extra_data too short for precert_entry", entry_type, 0)
                 ELSE LET precert_len == Be24(ByteAt(extra_bytes, 0), ByteAt(extra_bytes, 1),
                                              ByteAt(extra_bytes, 2))
                      IN IF Len(extra_bytes) < 3 + precert_len
                         THEN ParseErr("extra_data truncated", entry_type, precert_len)
                         ELSE ParseDer(entry_type, precert_len,
                                       Slice(extra_bytes, 3, 3 + precert_len), TRUE)
           [] OTHER -> ParseErr("Unknown entry type", entry_type, 0)

\* CertificateParser::parse_log_entry after the two base64 decodings, up to
\* the call of extract_full_cert_from_der.
parse_log_entry_bytes(leaf_bytes, extra_bytes, pp) ==
    IF Len(leaf_bytes) < 12 THEN ParseErr("Leaf input too short", 0, 0)
    ELSE LET entry_type == Be16(ByteAt(leaf_bytes, 10), ByteAt(leaf_bytes, 11)) IN
         CASE entry_type = 0 ->
                 IF Len(leaf_bytes) < 15 THEN ParseErr("x509_entry too short", entry_type, 0)
                 ELSE LET cert_len == Be24(ByteAt(leaf_bytes, 12), ByteAt(leaf_bytes, 13),
                                           ByteAt(leaf_bytes, 14))
                          end_pos == Min(15 + cert_len, Len(leaf_bytes))
                      IN ParseDer(entry_type, cert_len, Slice(leaf_bytes, 15, end_pos), FALSE)
           [] entry_type = 1 ->
                 IF ~pp THEN ParseErr("Precertificate parsing disabled", entry_type, 0)
                 ELSE IF Len(extra_bytes) < 3
                 THEN ParseErr("extra_data too short for precert_entry", entry_type, 0)
                 ELSE LET precert_len == Be24(ByteAt(extra_bytes, 0), ByteAt(extra_bytes, 1),
                                              ByteAt(extra_bytes, 2))
                      IN IF Len(extra_bytes) < 3 + precert_len
                         THEN ParseErr("extra_data truncated", entry_type, precert_len)
                         ELSE ParseDer(entry_type, precert_len,
                                       Slice(extra_bytes, 3, 3 + precert_len), TRUE)
           [] OTHER -> ParseErr("Unknown entry type", entry_type, 0)

\* A MerkleTreeLeaf: version, leaf type and timestamp (10 bytes), the entry
\* type, a 3-byte length and the certificate bytes; cut to n bytes.
LeafBytes(n, t, len) ==
    SubSeq(<<0, 0, 0, 0, 0, 0, 0, 0, 0, 0>> \o t \o len \o [i \in 1..MaxLeaf |-> 15 + i], 1, n)

\* An extra_data: a 3-byte length and the bytes after it; cut to n bytes.
ExtraBytes(n, len) == SubSeq(len \o [i \in 1..MaxExtra |-> 100 + i], 1, n)

\* The two bytes of the entry type and the three bytes of a declared length.
TypeBytes == {<<0, 0>>, <<0, 1>>, <<0, 2>>, <<1, 0>>, <<1, 1>>}
LengthBytes == {<<h[1], h[2], low>> : h \in {<<0, 0>>, <<0, 1>>, <<1, 0>>}, low \in 0..MaxDeclared}

InitParse ==
    /\ PipelineIdle
    /\ call \in {Some([leaf_bytes |-> LeafBytes(n, t, len), extra_bytes |-> ExtraBytes(m, e),
                        parse_precerts |-> pp]) :
                    n \in 0..MaxLeaf, t \in TypeBytes, len \in LengthBytes,
                    m \in 0..MaxExtra, e \in {x \in LengthBytes : x[1] = 0}, pp \in BOOLEAN}
    /\ ret = None

ParseLogEntry ==
    /\ call # None
    /\ Return(parse_log_entry_bytes(call[1].leaf_bytes, call[1].extra_bytes, call[1].parse_precerts))

NextParse == ParseLogEntry

SpecParse == InitParse /\ [][NextParse]_vars

(***************************************************************************)
(* poll_once's range computation on unsigned 64-bit values (monitor.rs     *)
(* 110-148). A u64 is written as an integer code: n >= 0 stands for n and  *)
(* n < 0 for 2^64 + n, so the values near both ends of the range are exact. *)
(***************************************************************************)
\* How far below 2^64 the values of a run reach.
MaxWide == 2

\* The u64 values of a run: 0..MaxTree and 2^64 - MaxWide..2^64 - 1.
U64s == (0 - MaxWide)..MaxTree

\* a < b and a <= b on u64.
U64Less(a, b) == IF (a < 0) = (b < 0) THEN a < b ELSE b < 0

U64Leq(a, b) == a = b \/ U64Less(a, b)

\* std::cmp::min on u64.
U64Min(a, b) == IF U64Less(a, b) THEN a ELSE b

\* a + b leaves the u64 range.
AddOverflows(a, b) ==
    \/ a < 0 /\ b < 0
    \/ (a < 0) # (b < 0) /\ a + b >= 0

\* a + b modulo 2^64.
WrappingAdd(a, b) == a + b

\* a - 1 leaves the u64 range, and a - 1 modulo 2^64.
SubOneUnderflows(a) == a = 0

WrappingSubOne(a) == a - 1

\* The result of the range computation: the end index and whether a step of
\* it left the u64 range, or the panic of a build with overflow checks.
RangeResult(e, w) == [panicked |-> FALSE, end_index |-> e, wrapped |-> w]

RangePanic == [panicked |-> TRUE, end_index |-> 0, wrapped |-> TRUE]

\* Line 136: let end_index = std::cmp::min(last_index + batch_size,
\* tree_size) - 1. An operation that leaves the range panics in a build with
\* overflow checks and wraps in one without: both outcomes are in the set.
end_index(last, batch, tree_size) ==
    LET over == AddOverflows(last, batch)
        m == U64Min(WrappingAdd(last, batch), tree_size)
        under == SubOneUnderflows(m)
    IN  {RangeResult(WrappingSubOne(m), over \/ under)} \cup (IF over \/ under THEN {RangePanic} ELSE {})

\* poll_once has read tree_size and a cursor below it (lines 116-133); the
\* configured batch_size is any u64 (config.rs 11-12).
InitRange ==
    /\ PipelineIdle
    /\ call \in {Some([last_index |-> c, batch_size |-> b, tree_size |-> t]) :
                    c \in U64s, b \in U64s, t \in {x \in U64s : x # 0}}
    /\ U64Less(call[1].last_index, call[1].tree_size)
    /\ ret = None

\* Lines 136-148: the range is computed and handed to get_entries_with_retry.
ComputeRange ==
    /\ call # None
    /\ \E r \in end_index(call[1].last_index, call[1].batch_size, call[1].tree_size) : Return(r)

NextRange == ComputeRange

SpecRange == InitRange /\ [][NextRange]_vars

(***************************************************************************)
(* The file-backed StateManager step by step (state.rs): the pollers of    *)
(* the logs call update_index, main calls save, and the process may die at *)
(* any point. The manager does not look at the indices it stores, so the   *)
(* runs start a few advances before the automatic flush.                   *)
(***************************************************************************)
\* The largest index passed to update_index.
MaxIndex == 2

\* How far before the automatic flush a run may start, in advances.
MaxBefore == 2

\* How often main calls save.
MaxSaves == 1

\* What the store steps leave alone.
storerest == <<matchvars, healthvars, mainvars, fnvars, guardvars, callvars, cfgvars, log, health, shutdown, cpc,
               queue, dedupe, pollvars, histvars>>

\* The cursor maps over the logs with indices up to MaxIndex.
StoreMaps == UNION {[d -> 1..MaxIndex] : d \in SUBSET Logs}

\* The file was written from an earlier value of the map.
FileBehind(f, st) ==
    /\ DOMAIN f \subseteq DOMAIN st
    /\ \A l \in DOMAIN f : f[l] <= st[l]

InitStore ==
    /\ InitPipelineRest({}, {}, "file") /\ batch_size = 1 /\ parse_precerts
    /\ MatchIdle
    /\ HealthIdle
    /\ FnIdle
    /\ GuardIdle
    /\ state \in StoreMaps
    /\ file \in {f \in StoreMaps : FileBehind(f, state)}
    /\ save_counter \in {0} \cup ((AutoSaveEvery - MaxBefore) .. (AutoSaveEvery - 1))
    /\ spc = [t \in StoreTasks |-> "idle"]
    /\ sarg = [t \in StoreTasks |-> 0]
    /\ slock = None
    /\ tmp = NoTmp
    /\ held = [l \in Logs |-> (IF l \in DOMAIN state THEN {state[l]} ELSE {})
                               \cup (IF l \in DOMAIN file THEN {file[l]} ELSE {})]

\* update_index, lines 59-62: the index is inserted under the state lock and
\* the lock is released.
StoreInsert(t, index) ==
    /\ t \in Logs
    /\ spc[t] = "idle"
    /\ slock = None
    /\ index > Cursor(t)
    /\ state' = MapInsert(state, t, index)
    /\ held' = [held EXCEPT ![t] = @ \cup {index}]
    /\ sarg' = [sarg EXCEPT ![t] = index]
    /\ spc' = [spc EXCEPT ![t] = "count"]
    /\ UNCHANGED <<storerest, save_counter, file, slock, tmp>>

\* StoreCount with the flush one advance late.
StoreCountLate(t) ==
    /\ spc[t] = "count"
    /\ IF save_counter + 1 > AutoSaveEvery
       THEN /\ save_counter' = 0
            /\ spc' = [spc EXCEPT ![t] = "save"]
       ELSE /\ save_counter' = save_counter + 1
            /\ spc' = [spc EXCEPT ![t] = "idle"]
    /\ UNCHANGED <<storerest, state, file, sarg, slock, tmp, held>>

\* update_index, lines 64-70: under the counter lock the counter is
\* incremented; at 100 it is reset, the lock dropped and save called,
\* otherwise update_index returns.
StoreCount(t) ==
    /\ spc[t] = "count"
    /\ IF save_counter + 1 >= AutoSaveEvery
       THEN /\ save_counter' = 0
            /\ spc' = [spc EXCEPT ![t] = "save"]
       ELSE /\ save_counter' = save_counter + 1
            /\ spc' = [spc EXCEPT ![t] = "idle"]
    /\ UNCHANGED <<storerest, state, file, sarg, slock, tmp, held>>

\* main, line 468: state_manager.save() is called.
StoreSaveCall ==
    /\ spc["main"] = "idle"
    /\ sarg["main"] < MaxSaves
    /\ sarg' = [sarg EXCEPT !["main"] = @ + 1]
    /\ spc' = [spc EXCEPT !["main"] = "save"]
    /\ UNCHANGED <<storerest, state, save_counter, file, slock, tmp, held>>

\* save, lines 80-85: the state lock is taken and the map serialized.
StoreSaveLock(t) ==
    /\ spc[t] = "save"
    /\ slock = None
    /\ slock' = Some(t)
    /\ spc' = [spc EXCEPT ![t] = "write"]
    /\ UNCHANGED <<storerest, state, save_counter, file, sarg, tmp, held>>

\* StoreWriteOk with fs::write going to the state file itself: while the
\* write is under way the state file holds a part of the map.
StoreWriteInPlace(t) ==
    /\ spc[t] = "write"
    /\ file' = [kind |-> "torn", map |-> EmptyMap]
    /\ spc' = [spc EXCEPT ![t] = "rename"]
    /\ UNCHANGED <<storerest, state, save_counter, sarg, slock, tmp, held>>

\* save, lines 88-92: fs::write puts the serialized map into the temporary
\* file.
StoreWriteOk(t) ==
    /\ spc[t] = "write"
    /\ tmp' = [kind |-> "whole", map |-> state]
    /\ spc' = [spc EXCEPT ![t] = "rename"]
    /\ UNCHANGED <<storerest, state, save_counter, file, sarg, slock, held>>

\* save, lines 90-92: fs::write fails, possibly after a part was written;
\* save returns the error and the caller goes on (update_index logs it).
StoreWriteErr(t) ==
    /\ spc[t] = "write"
    /\ tmp' \in {tmp, [kind |-> "torn", map |-> EmptyMap]}
    /\ slock' = None
    /\ spc' = [spc EXCEPT ![t] = "idle"]
    /\ UNCHANGED <<storerest, state, save_counter, file, sarg, held>>

\* save, lines 94-100: fs::rename replaces the state file by the temporary
\* file in one step; Ok(()).
StoreRenameOk(t) ==
    /\ spc[t] = "rename"
    /\ file' = tmp.map
    /\ tmp' = NoTmp
    /\ slock' = None
    /\ spc' = [spc EXCEPT ![t] = "idle"]
    /\ UNCHANGED <<storerest, state, save_counter, sarg, held>>

\* save, lines 94-96: fs::rename fails, the state file is as it was.
StoreRenameErr(t) ==
    /\ spc[t] = "rename"
    /\ slock' = None
    /\ spc' = [spc EXCEPT ![t] = "idle"]
    /\ UNCHANGED <<storerest, state, save_counter, file, sarg, tmp, held>>

\* The process dies; a fs::write under way leaves any part of the temporary
\* file.
StoreCrash ==
    /\ \E t \in StoreTasks : spc[t] \notin {"dead", "restarted"}
    /\ spc' = [t \in StoreTasks |-> "dead"]
    /\ slock' = None
    /\ IF \E t \in StoreTasks : spc[t] = "write"
       THEN tmp' \in {tmp, [kind |-> "torn", map |-> EmptyMap], [kind |-> "whole", map |-> state]}
       ELSE tmp' = tmp
    /\ UNCHANGED <<storerest, state, save_counter, file, sarg, held>>

\* StateManager::new, lines 19-47, after the crash: the map is read from the
\* state file and the counter is 0.
StoreRestart ==
    /\ \A t \in StoreTasks : spc[t] = "dead"
    /\ state' = file
    /\ save_counter' = 0
    /\ spc' = [t \in StoreTasks |-> "restarted"]
    /\ UNCHANGED <<storerest, file, sarg, slock, tmp, held>>

\* One step of task t inside update_index or save.
StoreStep(t) ==
    \/ StoreCount(t)
    \/ StoreSaveLock(t)
    \/ StoreWriteOk(t)
    \/ StoreWriteErr(t)
    \/ StoreRenameOk(t)
    \/ StoreRenameErr(t)

NextStore ==
    \/ \E t \in Logs : \E index \in 1..MaxIndex : StoreInsert(t, index)
    \/ \E t \in StoreTasks : StoreCount(t)
    \/ StoreSaveCall
    \/ \E t \in StoreTasks : StoreSaveLock(t)
    \/ \E t \in StoreTasks : StoreWriteOk(t)
    \/ \E t \in StoreTasks : StoreWriteErr(t)
    \/ \E t \in StoreTasks : StoreRenameOk(t)
    \/ \E t \in StoreTasks : StoreRenameErr(t)
    \/ StoreCrash
    \/ StoreRestart

\* The runtime schedules every task that can take a step; the lock of
\* tokio::sync::Mutex is handed out in FIFO order.
StoreFairness == \A t \in StoreTasks : SF_vars(StoreStep(t))

SpecStore == InitStore /\ [][NextStore]_vars /\ StoreFairness

(***************************************************************************)
(* The guards and the queue: for each task the sequence of its lock,       *)
(* release, send and receive steps, in the order of the code. An           *)
(* instruction names its successors; `count` goes to the first one when    *)
(* the save counter reaches 100 and to the second one otherwise.           *)
(***************************************************************************)
Instr(o, g, n) == [op |-> o, g |-> g, next |-> n]

\* PollerProgram with the counter lock kept while save takes the state lock.
PollerProgramHoldingCounter ==
    << Instr("read",    "health",  <<2>>),
       Instr("release", "health",  <<3, 1>>),
       Instr("lock",    "cursor",  <<4>>),
       Instr("release", "cursor",  <<5, 14>>),
       Instr("send",    "none",    <<6>>),
       Instr("lock",    "cursor",  <<7>>),
       Instr("release", "cursor",  <<8>>),
       Instr("lock",    "counter", <<9>>),
       Instr("count",   "counter", <<10, 13>>),
       Instr("lock",    "cursor",  <<11>>),
       Instr("release", "cursor",  <<12>>),
       Instr("release", "counter", <<5, 14>>),
       Instr("release", "counter", <<5, 14>>),
       Instr("write",   "health",  <<15>>),
       Instr("release", "health",  <<1>>) >>

\* LogMonitor::run and poll_once (monitor.rs 60-103, 109-222) with
\* LogHealthTracker::should_poll / record_* (health.rs 83-161) and
\* StateManager::get_last_index / update_index / save (state.rs 51-101).
PollerProgram ==
    << Instr("read",    "health",  <<2>>),      \* 1 should_poll: health.read()
       Instr("release", "health",  <<3, 1>>),   \* 2 poll, or skip and ask again
       Instr("lock",    "cursor",  <<4>>),      \* 3 get_last_index: state.lock()
       Instr("release", "cursor",  <<5, 14>>),  \* 4 entries to process, or up to date
       Instr("send",    "none",    <<6>>),      \* 5 cert_tx.send(cert_data)
       Instr("lock",    "cursor",  <<7>>),      \* 6 update_index: state.lock(), insert
       Instr("release", "cursor",  <<8>>),      \* 7 end of the block
       Instr("lock",    "counter", <<9>>),      \* 8 save_counter.lock()
       Instr("count",   "counter", <<10, 13>>), \* 9 *counter += 1; >= 100 ?
       Instr("release", "counter", <<11>>),     \* 10 *counter = 0; drop(counter)
       Instr("lock",    "cursor",  <<12>>),     \* 11 save: state.lock()
       Instr("release", "cursor",  <<5, 14>>),  \* 12 save returns; next entry or done
       Instr("release", "counter", <<5, 14>>),  \* 13 update_index returns
       Instr("write",   "health",  <<15>>),     \* 14 record_success / record_failure
       Instr("release", "health",  <<1>>) >>    \* 15 sleep, next cycle

\* CtLogCoordinator::run and handle_cert_entry (coordinator.rs 114-208) with
\* Dedupe::should_emit (dedupe.rs 20-41).
ConsumerProgram ==
    << Instr("recv",    "none",      <<2>>),     \* 1 cert_rx.recv()
       Instr("lock",    "dedupe",    <<3>>),     \* 2 should_emit: inner.lock()
       Instr("release", "dedupe",    <<4, 1>>),  \* 3 new record, or seen / no domains
       Instr("lock",    "watchlist", <<5>>),     \* 4 watchlist.lock()
       Instr("match",   "watchlist", <<6, 8>>),  \* 5 matches_domain: a match, or none
       Instr("emit",    "none",      <<7>>),     \* 6 output_manager.emit(&result)
       Instr("persist", "none",      <<8>>),     \* 7 db.save_match(&result)
       Instr("release", "watchlist", <<1>>) >>   \* 8 handle_cert_entry returns

\* PlatformSyncManager::sync_platform (platforms/sync.rs 97-119).
SyncProgram ==
    << Instr("lock",    "watchlist", <<2>>),     \* 1 self.watchlist.lock()
       Instr("add",     "watchlist", <<3>>),     \* 2 add_domain_to_program, add_host_to_program
       Instr("release", "watchlist", <<1>>) >>   \* 3 sync_platform returns

Program(t) ==
    IF t = "consumer" THEN ConsumerProgram
    ELSE IF t = "sync" THEN SyncProgram
    ELSE PollerProgram

\* The instruction task t is at.
At(t) == Program(t)[gpc[t]]

\* The guards task t holds.
HeldBy(t) == {g \in Guards : t \in guard[g].holders}

\* Task t can take its next step.
CanStep(t) ==
    CASE At(t).op \in {"lock", "write"} -> guard[At(t).g].holders = {}
      [] At(t).op = "read" -> ~guard[At(t).g].exclusive
      [] At(t).op = "send" -> Len(queue) < QueueCap
      [] At(t).op = "recv" -> queue # <<>>
      [] OTHER -> TRUE

\* The guards after the step of task t.
GuardsAfter(t) ==
    CASE At(t).op \in {"lock", "write"} ->
             [guard EXCEPT ![At(t).g] = [holders |-> {t}, exclusive |-> TRUE]]
      [] At(t).op = "read" ->
             [guard EXCEPT ![At(t).g] = [holders |-> @.holders \cup {t}, exclusive |-> FALSE]]
      [] At(t).op = "release" ->
             [guard EXCEPT ![At(t).g] = [holders |-> @.holders \ {t}, exclusive |-> FALSE]]
      [] OTHER -> guard

\* One step of task t: its instruction is carried out and it goes to one of
\* the instruction's successors.
GuardStep(t) ==
    /\ CanStep(t)
    /\ guard' = GuardsAfter(t)
    /\ queue' = CASE At(t).op = "send" -> Append(queue, "record")
                  [] At(t).op = "recv" -> Tail(queue)
                  [] OTHER -> queue
    /\ IF At(t).op = "count"
       THEN IF save_counter + 1 >= AutoSaveEvery
            THEN save_counter' = 0 /\ gpc' = [gpc EXCEPT ![t] = At(t).next[1]]
            ELSE save_counter' = save_counter + 1 /\ gpc' = [gpc EXCEPT ![t] = At(t).next[2]]
       ELSE /\ save_counter' = save_counter
            /\ \E i \in 1..Len(At(t).next) : gpc' = [gpc EXCEPT ![t] = At(t).next[i]]
    /\ UNCHANGED <<matchvars, healthvars, mainvars, fnvars, storevars, callvars, cfgvars, log, state, file,
                   health, shutdown, cpc, dedupe, pollvars, histvars>>

\* The tasks that run when the logs of u are monitored.
Running(u) == u \cup {"consumer", "sync"}

InitGuards(u) ==
    /\ InitPipelineRest(u, {}, "file") /\ batch_size = 1 /\ parse_precerts
    /\ MatchIdle
    /\ HealthIdle
    /\ FnIdle
    /\ StoreIdle
    /\ GuardIdle
    /\ state = EmptyMap
    /\ file = EmptyMap
    /\ save_counter \in {0} \cup ((AutoSaveEvery - MaxBefore) .. (AutoSaveEvery - 1))

NextGuards == \E t \in Running(urls) : GuardStep(t)

\* The runtime schedules every task that can take a step, and the tokio
\* locks and the queue serve their waiters in FIFO order.
GuardFairness == \A t \in GuardTasks : SF_vars(t \in Running(urls) /\ GuardStep(t))

\* Two pollers, the consumer and the platform-sync writer.
SpecGuards == InitGuards(Logs) /\ [][NextGuards]_vars

\* One poller, the consumer and the platform-sync writer under fair
\* scheduling.
SpecGuardsFair == InitGuards({"A"}) /\ [][NextGuards]_vars /\ GuardFairness

(***************************************************************************)
(* Cursor claims.                                                          *)
(***************************************************************************)
\* The poller of l is past get_last_index in a cycle whose get-sth succeeded,
\* or between two cycles after such a cycle.
CycleKnown(l) == sth[l] # None /\ pc[l] # "get_index"

\* C1: with the file-backed store, every step leaves the stored cursor of
\* every log where it was or moves it forward: the stored values form a
\* non-decreasing sequence.
C1_CursorNonDecreasing ==
    [][\A l \in Logs : backend = "file" => Cursor(l)' >= Cursor(l)]_vars

\* C1 witness: a cursor that was stored at least twice, the second time in a
\* later poll cycle than the first.
C1_Witness ==
    \E l \in urls : /\ Cardinality(accepted[l]) >= 2
                    /\ Cursor(l) >= 2
                    /\ last_index[l] >= 1
                    /\ pc[l] = "sleep"

C3_RangeSelection ==
    \A l \in urls :
        CycleKnown(l) =>
            LET c == last_index[l]
                t == sth[l][1]
                e == (IF c + batch_size <= t THEN c + batch_size ELSE t) - 1
            IN  IF c >= t
                THEN /\ req[l] = None
                     /\ pc[l] \in {"record_success", "sleep", "loop", "backoff_sleep",
                                   "exited"}
                ELSE \/ pc[l] = "get_entries" /\ req[l] = None
                     \/ pc[l] # "get_entries" /\ req[l] = Some(<<c, e>>)

\* C3 witness: a request from a cursor above 0 whose end is clamped by the
\* tree_size rather than by the batch size.
C3_Witness ==
    \E l \in urls : /\ CycleKnown(l)
                    /\ last_index[l] >= 1
                    /\ last_index[l] + batch_size > sth[l][1]
                    /\ req[l] = Some(<<last_index[l], sth[l][1] - 1>>)

\* C4: after a cycle in which get-entries returned n entries and every send
\* succeeded, the cursor is its value before the cycle plus n.
C4_CursorAdvancesByBatch ==
    \A l \in urls :
        (pc[l] = "record_success" /\ req[l] # None)
            => Cursor(l) = last_index[l] + entries[l]

\* C6: the stored cursor becomes i + 1 only when the send of entry i has
\* already returned Ok.
C6_AdvanceOnlyAfterAccepted ==
    [][\A l \in urls :
          MapGet(state, l)' # MapGet(state, l) => (Cursor(l)' - 1) \in accepted[l]]_vars

\* C6 witness: the cursor was advanced past an entry the queue accepted, in
\* a batch in which an earlier entry was skipped.
C6_Witness ==
    \E l \in urls : /\ pc[l] = "process"
                    /\ offset[l] >= 2
                    /\ Cursor(l) = last_index[l] + offset[l]
                    /\ (Cursor(l) - 1) \in accepted[l]
                    /\ (Cursor(l) - 2) \notin accepted[l]

\* C5: a poller does not stall on undecodable entries: whenever the log
\* holds entries at or after the stored cursor, the cursor eventually grows.
C5_NoStallOnSkippedEntries ==
    \A l \in Logs : \A v \in 0..MaxTree :
        (l \in urls /\ Cursor(l) = v /\ Len(log[l]) > v) ~> (Cursor(l) > v)

(***************************************************************************)
(* Queue claims.                                                           *)
(***************************************************************************)

\* C7: once a send has failed because the queue is closed, the poller has
\* left its loop for good: it is on its way out of the failed cycle or has
\* exited, and is inside no further poll cycle; the cursor has not moved
\* past the entry whose send failed.
C7_PollerExitsOnClosedQueue ==
    \A l \in urls :
        send_failed[l] =>
            /\ pc[l] \in {"record_failure", "sleep", "loop", "backoff_sleep", "exited"}
            /\ pc[l] = "record_failure" => Cursor(l) <= EntryIndex(last_index[l], offset[l])

\* The part of C7 about the cursor alone: a failed send stores no cursor.
C7_FailedSendStoresNothing ==
    [][\A l \in urls : (~send_failed[l] /\ send_failed[l]') => Cursor(l)' = Cursor(l)]_vars

\* C8: the cert_index values the consumer drains for one log are strictly
\* increasing: each record taken from the queue has a larger index than the
\* record drained before it for the same log.
C8_DrainedStrictlyIncreasing ==
    [][(queue # <<>> /\ queue' = Tail(queue) /\ cpc' = "running") =>
         LET l == Head(queue).ct_log_url[1]
             i == Head(queue).cert_index[1]
         IN  last_drained[l] = None \/ i > last_drained[l][1]]_vars

(***************************************************************************)
(* Dedupe claims.                                                          *)
(***************************************************************************)

\* The key the specification gives the dedupe set: (log_url, cert_index).
LogIndexKey(data) == <<data.ct_log_url, data.cert_index>>

\* C9: a record whose (log_url, cert_index) differs from that of every
\* record that went through the dedupe set before it is not suppressed.
C9_OtherKeyNotSuppressed ==
    \A j \in 1..Len(dcalls) :
        (/\ dcalls[j].data.cert_index # None
         /\ \A i \in 1..(j - 1) : LogIndexKey(dcalls[i].data) # LogIndexKey(dcalls[j].data))
            => dcalls[j].result

\* The key as C10 words it: cert_index when present, else the fingerprint,
\* else none.
StatedKey(data) ==
    IF data.cert_index # None THEN <<"cert_index", data.cert_index[1]>>
    ELSE IF data.leaf_cert # None /\ data.leaf_cert[1].fingerprint # None
         THEN <<"fingerprint", data.leaf_cert[1].fingerprint[1]>>
         ELSE <<"neither", 0>>

\* C10: among the should_emit calls that returned, each key has exactly one
\* call that returned true, however the callers interleave; a record with
\* neither cert_index nor fingerprint always gets true.
C10_ExactlyOneTruePerKey ==
    \A j \in 1..Len(dcalls) :
        IF StatedKey(dcalls[j].data)[1] = "neither"
        THEN dcalls[j].result
        ELSE Cardinality({i \in 1..Len(dcalls) :
                            /\ StatedKey(dcalls[i].data) = StatedKey(dcalls[j].data)
                            /\ dcalls[i].result}) = 1

\* C10 witness: a caller waits for the lock while the other, holding it, has
\* found their common fingerprint key, which an earlier call with another
\* record inserted and got true for.
C10_Witness ==
    \E c1, c2 \in Callers :
        /\ c1 # c2
        /\ dpc[c1] = "lock"
        /\ dpc[c2] = "checked" /\ dfound[c2]
        /\ StatedKey(ddata[c1][1]) = StatedKey(ddata[c2][1])
        /\ StatedKey(ddata[c2][1])[1] = "fingerprint"
        /\ \E i \in 1..Len(dcalls) :
              /\ StatedKey(dcalls[i].data) = StatedKey(ddata[c2][1])
              /\ dcalls[i].data # ddata[c2][1]
              /\ dcalls[i].result

(***************************************************************************)
(* Match pipeline claims.                                                  *)
(***************************************************************************)

\* C11: with deduplication disabled, no record the consumer handled was
\* dropped in the dedupe step.
C11_DisabledDedupeDropsNothing ==
    ~dedupe_enabled => \A j \in 1..Len(handled) : ~handled[j].deduped

\* Domain d matches the watchlist and passes the root filter, if there is one.
Qualifies(d) ==
    /\ matches_domain(watchlist, d)
    /\ root_filter = None \/ RootShouldEmit(root_filter[1], d)

\* The positions in all_domains of the domains of h's record that qualify.
QualifyingAt(h) == {i \in 1..Len(DomainsOf(h.data)) : Qualifies(DomainsOf(h.data)[i])}

\* C12: every handled record produced at most one MatchRecord, whose
\* matched_domain is the first domain of all_domains, in order, that matches
\* the watchlist and passes the root filter; empty all_domains produced none.
C12_AtMostOneFirstMatch ==
    \A j \in 1..Len(handled) :
        LET h == handled[j]
            ds == DomainsOf(h.data)
        IN  /\ Len(h.matches) <= 1
            /\ h.matches # <<>> =>
                  /\ QualifyingAt(h) # {}
                  /\ \E i \in QualifyingAt(h) :
                        /\ \A k \in QualifyingAt(h) : i <= k
                        /\ h.matches[1].matched_domain = ds[i]
            /\ ds = <<>> => h.matches = <<>>

\* C12 witness: a record with two qualifying domains was handled and
\* produced one MatchRecord.
C12_Witness ==
    \E j \in 1..Len(handled) :
        /\ Cardinality(QualifyingAt(handled[j])) >= 2
        /\ Len(handled[j].matches) = 1

\* C13: with a root filter, every emitted matched_domain passes
\* should_emit, and a record that got through dedupe and has a qualifying
\* domain produced a MatchRecord, whatever was rejected before that domain.
C13_RootFilterHolds ==
    root_filter # None =>
        \A j \in 1..Len(handled) :
            /\ \A m \in 1..Len(handled[j].matches) :
                  RootShouldEmit(root_filter[1], handled[j].matches[m].matched_domain)
            /\ (~handled[j].deduped /\ QualifyingAt(handled[j]) # {}) =>
                  handled[j].matches # <<>>

\* C13 witness: the first domain of a record matches the watchlist and is
\* rejected by the root filter, and a later domain was emitted.
C13_Witness ==
    /\ root_filter # None
    /\ \E j \in 1..Len(handled) :
          LET ds == DomainsOf(handled[j].data)
          IN  /\ Len(ds) >= 2
              /\ matches_domain(watchlist, ds[1])
              /\ ~RootShouldEmit(root_filter[1], ds[1])
              /\ handled[j].matches # <<>>
              /\ handled[j].matches[1].matched_domain = ds[2]

\* C19: for every MatchRecord, emit_match was called on every registered
\* sink, in registration order, whatever the earlier sinks answered, and the
\* consumer is still receiving.
C19_FanOutReachesEverySink ==
    /\ cpc = "running"
    /\ \A j \in 1..Len(handled) : \A m \in 1..Len(handled[j].matches) :
          LET calls == handled[j].matches[m].calls
          IN  /\ Len(calls) = sinks
              /\ \A i \in 1..sinks : calls[i].sink = i

\* C19 witness: the first sink failed on a MatchRecord, the second sink got
\* it, and the consumer handled a further record that matched.
C19_Witness ==
    /\ Len(handled) = 2
    /\ handled[1].matches # <<>> /\ handled[2].matches # <<>>
    /\ Len(handled[1].matches[1].calls) = 2
    /\ ~handled[1].matches[1].calls[1].ok
    /\ handled[1].matches[1].calls[2].sink = 2

\* C20: emit returned an error only when every registered sink failed on
\* that record: with one sink that succeeded the result is Ok.
C20_ErrorOnlyIfAllFailed ==
    \A j \in 1..Len(handled) : \A m \in 1..Len(handled[j].matches) :
        LET e == handled[j].matches[m]
        IN  (\E i \in 1..Len(e.calls) : e.calls[i].ok) => e.result = "Ok"

\* C20 witness: of two sinks one failed and one succeeded, and emit
\* returned Ok.
C20_Witness ==
    \E j \in 1..Len(handled) : \E m \in 1..Len(handled[j].matches) :
        LET e == handled[j].matches[m]
        IN  /\ \E i \in 1..Len(e.calls) : ~e.calls[i].ok
            /\ \E i \in 1..Len(e.calls) : e.calls[i].ok
            /\ e.result = "Ok"

(***************************************************************************)
(* Health tracker claims.                                                  *)
(***************************************************************************)

\* The status the claim derives from the failure count c and threshold T.
StatusDerived(l) ==
    LET c == HealthInfo(l).failure_count
        st == HealthInfo(l).status
    IN  /\ st = "Healthy" <=> c = 0
        /\ st = "Degraded" <=> (0 < c /\ c < failure_threshold)
        /\ st = "Failed" <=> c >= failure_threshold

\* C14: after every record_success or record_failure call, status is
\* Healthy iff the failure count is 0, Degraded iff it is between 0 and T,
\* Failed iff it is at least T; a recorded success leaves the count at 0.
C14_StatusFollowsFailures ==
    [][\A l \in Logs :
          /\ StatusDerived(l)'
          /\ HealthSuccess(l) => HealthInfo(l).failure_count' = 0]_vars

\* C14 witness: a log whose failure count went through Degraded and past the
\* threshold is Failed.
C14_Witness ==
    /\ failure_threshold >= 2
    /\ "A" \in DOMAIN health
    /\ health["A"].status = "Failed"
    /\ health["A"].failure_count > failure_threshold

\* min(60 * 2^(k-1), 3600) over the integers (60 * 2^6 is already above 3600).
BackoffLaw(k) == IF k > 7 THEN 3600 ELSE Min(60 * Pow2(k - 1), 3600)

\* C15: a log with k >= 1 consecutive recorded failures has
\* current_backoff = min(60 * 2^(k-1), 3600) seconds, and one whose last
\* call was a success has 0.
C15_BackoffLaw ==
    \A l \in DOMAIN health :
        health[l].current_backoff =
            IF health[l].failure_count = 0 THEN 0 ELSE BackoffLaw(health[l].failure_count)

\* The backoff is still right, but only because the task that recorded the
\* failure panicked before it could store a new one.
C15_PanicInsteadOfBackoff == \A l \in Logs : ~panicked[l]

\* C16: should_poll answers true for a log that is Healthy, Degraded or
\* untracked, and for a Failed log exactly when at least current_backoff
\* seconds have passed since its last failure; with threshold 3 and 3
\* failures that is false after 239 s and true after 241 s.
C16_ShouldPollRespectsBackoff ==
    \A l \in Logs :
        poll_answer[l] # None =>
            /\ poll_answer[l][1] =
                  IF HealthInfo(l).status = "Failed"
                  THEN since_failure[l][1] >= HealthInfo(l).current_backoff
                  ELSE TRUE
            /\ (failure_threshold = 3 /\ HealthInfo(l).failure_count = 3) =>
                  /\ since_failure[l][1] = 239 => ~poll_answer[l][1]
                  /\ since_failure[l][1] = 241 => poll_answer[l][1]

\* C16 witness: threshold 3, 3 failures, 241 s later should_poll answered true.
C16_Witness ==
    /\ failure_threshold = 3
    /\ HealthInfo("A").failure_count = 3
    /\ HealthInfo("A").status = "Failed"
    /\ since_failure["A"] = Some(241)
    /\ poll_answer["A"] = Some(TRUE)

\* The flag the pollers' runs keep for "the backoff has elapsed" answers as
\* the clock does.
ElapsedFlagAgrees == \A l \in Logs : should_poll(l) = should_poll_at(l)

(***************************************************************************)
(* Shutdown claims.                                                        *)
(***************************************************************************)
\* C17: after the operator's shutdown signal the shutdown channel is
\* written, every poller leaves its loop, and the consumer loop ends.
C17_SignalEndsPollersAndConsumer ==
    \A l \in Logs :
        (signalled /\ l \in urls) ~> (shutdown /\ AllPollersExited /\ cpc = "done")

\* Once the shutdown channel is written, every poller leaves its loop, the
\* consumer loop ends and main gets past its final save.
BroadcastEndsRun ==
    shutdown ~> (AllPollersExited /\ cpc = "done" /\ mpc \in {"returned", "failed"})

\* C18: once the run has ended after the operator's shutdown signal, the
\* state file holds, for every log, the cursor last advanced for it.
C18_FinalFlushHasEveryAdvance ==
    signalled => \A l \in urls : MapGet(file, l) = MapGet(state, l)

\* The final save runs after every poller has left its loop, and when it
\* succeeds the state file holds every cursor.
FinalSaveAfterPollers ==
    /\ mpc \in {"final_save", "returned", "failed"} => AllPollersExited /\ cpc = "done"
    /\ mpc = "returned" => file = state

(***************************************************************************)
(* Precertificate gating.                                                  *)
(***************************************************************************)
\* The poller of l is about to decode an entry of entry_type 1.
AtPrecert(l) ==
    /\ pc[l] = "process"
    /\ offset[l] < entries[l]
    /\ EntryAt(l, EntryIndex(last_index[l], offset[l])) = "precert"

\* C21: with parse_precerts = false no record on the queue has
\* is_precert = true, and decoding an entry of entry_type 1 skips it without
\* ending the cycle in a failure and without recording one;
\* with parse_precerts = true such an entry is decoded and goes to the send,
\* and every record on the queue has is_precert = true exactly when its
\* entry is of entry_type 1.
C21_PrecertGating ==
    [][/\ \A i \in 1..Len(queue') :
             /\ ~parse_precerts => ~queue'[i].is_precert
             /\ queue'[i].is_precert =
                   (EntryAt(queue'[i].ct_log_url[1], queue'[i].cert_index[1]) = "precert")
       /\ \A l \in urls :
             /\ (AtPrecert(l) /\ ~parse_precerts) =>
                   /\ pc'[l] = "process"
                   /\ HealthInfo(l)'.failure_count = HealthInfo(l).failure_count
                   /\ ProcessEntry(l) => offset'[l] = offset[l] + 1
             /\ (AtPrecert(l) /\ parse_precerts /\ ProcessEntry(l)) => pc'[l] = "send"]_vars

\* C21 witness: with parse_precerts = false a cycle whose batch starts with
\* an entry of entry_type 1 has gone through its entries and ends as a success.
C21_Witness ==
    /\ ~parse_precerts
    /\ pc["A"] = "record_success"
    /\ entries["A"] >= 1
    /\ EntryAt("A", last_index["A"]) = "precert"

\* With parse_precerts = true a record with is_precert = true is on the queue.
PrecertEnqueued ==
    /\ parse_precerts
    /\ \E i \in 1..Len(queue) : queue[i].is_precert

(***************************************************************************)
(* Matcher claims.                                                         *)
(***************************************************************************)
\* h ends with "." followed by x.
EndsWithDot(h, x) ==
    \E k \in 1..Len(h) : h[k] = "." /\ SubSeq(h, k + 1, Len(h)) = x

\* The table of pattern shapes, on a lowercase host and a lowercase pattern.
PatternTable(h, p) ==
    IF Len(p) >= 2 /\ p[1] = "*" /\ p[2] = "."
    THEN EndsWithDot(h, SubSeq(p, 3, Len(p)))
    ELSE IF Len(p) >= 1 /\ p[1] = "."
    THEN h = SubSeq(p, 2, Len(p)) \/ EndsWithDot(h, SubSeq(p, 2, Len(p)))
    ELSE h = p \/ EndsWithDot(h, p)

WildcardRejectsBare ==
    (ret # None /\ ret[1].rule = "domain"
        /\ call[1].host = <<"a">> /\ call[1].pattern = <<"*", ".", "a">>) => ~ret[1].result

\* C23: on the fixture watchlist matches_domain accepts every proper
\* subdomain of ibm.com and rejects the bare host ibm.com.
C23_FixtureIbm ==
    ret # None =>
        LET ls == call[1].labels
            n == Len(ls)
        IN  /\ (n >= 3 /\ ls[n - 1] = LabelIbm /\ ls[n] = LabelCom) => ret[1]
            /\ ls = <<LabelIbm, LabelCom>> => ~ret[1]

\* On the fixture watchlist matches_domain accepts every proper subdomain of
\* ibm.com.
FixtureAcceptsSubdomains ==
    ret # None =>
        LET ls == call[1].labels
            n == Len(ls)
        IN  (n >= 3 /\ ls[n - 1] = LabelIbm /\ ls[n] = LabelCom) => ret[1]

\* Program i of the watchlist has a host or a domain pattern that matches h.
ProgramCovers(wl, i, h) ==
    \/ \E x \in wl.programs[i].hosts : ToLower(x) = ToLower(h)
    \/ \E p \in wl.programs[i].domains : PatternTable(ToLower(h), ToLower(p))

\* C24: program_for_domain(h) returns the program that covers h and stands
\* before every other program covering h, and none when no program covers h,
\* whatever the global rules say; an addition at runtime keeps every
\* existing program at its position, so that the position is the order of
\* insertion.
C24_EarliestProgramWins ==
    [][/\ \A i \in 1..Len(watchlist.programs) :
             /\ i <= Len(watchlist'.programs)
             /\ watchlist'.programs[i].name = watchlist.programs[i].name
       /\ \A d \in LookedUp :
             ProgramForDomain(d) =>
                LET covering == {i \in 1..Len(watchlist.programs) :
                                    ProgramCovers(watchlist, i, d)}
                IN  IF covering = {} THEN ret'[1] = None
                    ELSE \E i \in covering :
                            /\ \A j \in covering : i <= j
                            /\ ret'[1] = Some(watchlist.programs[i])]_vars

\* C24 witness: two programs cover b.a, the one added at runtime stands
\* last, and the lookup returned the first.
C24_Witness ==
    /\ Len(watchlist.programs) = 3
    /\ watchlist.programs[1].name = "Q"
    /\ watchlist.programs[3].name = "R"
    /\ ProgramCovers(watchlist, 2, <<"b", ".", "a">>)
    /\ ProgramCovers(watchlist, 3, <<"b", ".", "a">>)
    /\ ~ProgramCovers(watchlist, 1, <<"b", ".", "a">>)
    /\ call = Some([domain |-> <<"b", ".", "a">>])
    /\ ret = Some(Some(watchlist.programs[2]))

\* No program covers the looked-up domain, a global rule does, and the
\* lookup returned none.
LookupFindsNoProgram ==
    /\ call = Some([domain |-> <<"a">>])
    /\ matches_domain(watchlist, <<"a">>)
    /\ \A i \in 1..Len(watchlist.programs) : ~ProgramCovers(watchlist, i, <<"a">>)
    /\ ret = Some(None)

(***************************************************************************)
(* Startup claims.                                                         *)
(***************************************************************************)
\* C25: the number of monitor tasks the coordinator starts is at most
\* max_concurrent_logs, with a discovered list and with custom_logs.
C25_PollersWithinLimit ==
    (ret # None /\ ret[1].monitors # None) =>
        Len(ret[1].monitors[1]) <= call[1].max_concurrent_logs

\* With a discovered list the number of monitor tasks is at most
\* max_concurrent_logs.
DiscoveredWithinLimit ==
    (ret # None /\ ret[1].monitors # None /\ call[1].custom_logs = None) =>
        Len(ret[1].monitors[1]) <= call[1].max_concurrent_logs

\* The stated rule of selection for one served log.
Selected(lg, ro, pe, al) ==
    /\ lg.url # ""
    /\ \/ al
       \/ lg.state # None /\ ("usable" \in lg.state[1] \/ "qualified" \in lg.state[1])
       \/ ro /\ lg.state # None /\ "readonly" \in lg.state[1]
       \/ pe /\ lg.state # None /\ "pending" \in lg.state[1]

\* The URLs of the served logs that the stated rule selects, in list order.
RECURSIVE SelectedUrls(_, _, _, _)
SelectedUrls(ls, ro, pe, al) ==
    IF ls = <<>> THEN <<>>
    ELSE (IF Selected(Head(ls), ro, pe, al) THEN <<Head(ls).url>> ELSE <<>>)
         \o SelectedUrls(Tail(ls), ro, pe, al)

C29_OnePollerPerUrl ==
    (ret # None /\ ret[1].monitors # None) =>
        \A i, j \in 1..Len(ret[1].monitors[1]) :
            i # j => ret[1].monitors[1][i] # ret[1].monitors[1][j]

\* With a log list whose URLs are distinct, no two monitor tasks are started
\* for the same log URL.
DistinctListOnePollerPerUrl ==
    (ret # None /\ ret[1].monitors # None
        /\ \A i, j \in 1..Len(ret[1].log_urls) : i # j => ret[1].log_urls[i] # ret[1].log_urls[j])
    => \A i, j \in 1..Len(ret[1].monitors[1]) :
            i # j => ret[1].monitors[1][i] # ret[1].monitors[1][j]

(***************************************************************************)
(* Retry wrapper claims.                                                   *)
(***************************************************************************)
\* min(2^(k-1), 60): the stated sleep before the k-th retry, in seconds.
StatedSleep(k) == IF k > 6 THEN 60 ELSE Pow2(k - 1)

\* C30: a wrapper called with max_retries = n whose requests all fail has,
\* when it returns the error, sent the first request and n retries and
\* slept min(2^(k-1), 60) seconds before the k-th retry; a wrapper that
\* returned Ok sent no request after the successful one.
C30_RetriesAndSleeps ==
    ret # None =>
        /\ ret[1] = "Err" =>
              /\ call[1].requests = call[1].max_retries + 1
              /\ call[1].slept = [k \in 1..call[1].max_retries |-> StatedSleep(k)]
        /\ ret[1] = "Ok" => call[1].requests = Len(call[1].slept) + 1

\* What the wrappers do: max_retries requests in all (one when max_retries
\* is 0), with a sleep of min(2^(k-1), 60) seconds before the k-th retry.
RetriesOneFewer ==
    ret # None =>
        /\ ret[1] = "Err" =>
              /\ call[1].requests = IF call[1].max_retries = 0 THEN 1 ELSE call[1].max_retries
              /\ call[1].slept = [k \in 1..call[1].requests - 1 |-> StatedSleep(k)]
        /\ ret[1] = "Ok" => call[1].requests = Len(call[1].slept) + 1

\* The wrapper always returns.
RetryTerminates == <>(ret # None)

\* The log l is Failed and its backoff has not elapsed: should_poll(l) is
\* false.
InBackoff(l) ==
    /\ l \in DOMAIN health
    /\ health[l].status = "Failed"
    /\ ~health[l].elapsed

\* What a skipped cycle of the poller of l leaves alone: the tree head and
\* the range of the last requests, and the failure count and status.
NothingAskedOrRecorded(l) ==
    /\ sth'[l] = sth[l]
    /\ req'[l] = req[l]
    /\ entries'[l] = entries[l]
    /\ HealthInfo(l)'.failure_count = HealthInfo(l).failure_count
    /\ HealthInfo(l)'.status = HealthInfo(l).status

\* C27: when should_poll(L) is false at the top of a cycle the poller of L
\* issues no get-sth and no get-entries request and records neither a success
\* nor a failure; it only goes to the sleep of one poll interval (or leaves
\* on shutdown) and from that sleep back to the top of the loop, so a poller
\* is never between get-sth and get-entries for a log in backoff.
C27_NoRequestInBackoff ==
    [][\A l \in urls :
          /\ (pc[l] = "loop" /\ InBackoff(l)) =>
                /\ pc'[l] \in {"loop", "backoff_sleep", "exited"}
                /\ NothingAskedOrRecorded(l)
          /\ pc[l] = "backoff_sleep" =>
                /\ pc'[l] \in {"backoff_sleep", "loop"}
                /\ NothingAskedOrRecorded(l)
          /\ pc[l] \in {"get_index", "get_entries"} => ~InBackoff(l)]_vars

\* C27 witness: the poller of a Failed log whose backoff has not elapsed is
\* in the sleep of a skipped cycle.
C27_Witness == pc["A"] = "backoff_sleep" /\ InBackoff("A")

\* The entries the last get-entries request of l asked for.
Requested(l) == req[l][1][2] - req[l][1][1] + 1

\* A get-entries response of this cycle of l is being, or has been, processed.
ResponseKnown(l) ==
    /\ req[l] # None
    /\ pc[l] \in {"process", "send", "update_index", "record_success"}

\* C28: when get-entries returned m entries for the range starting at start,
\* the entry in hand has an index in start .. start+m-1 and the cursor is at
\* most start + m; and each get-entries request starts at the cursor, so the
\* entries that were not returned are asked for again.
C28_ShortResponse ==
    [][\A l \in urls :
          /\ ResponseKnown(l) =>
                /\ Cursor(l) <= req[l][1][1] + entries[l]
                /\ pc[l] \in {"send", "update_index"} =>
                      EntryIndex(last_index[l], offset[l]) \in
                          req[l][1][1] .. (req[l][1][1] + entries[l] - 1)
          /\ (pc[l] = "get_entries" /\ pc'[l] # "get_entries") =>
                req'[l][1][1] = Cursor(l)]_vars

\* C28 witness: a cycle whose response held one entry of the two requested
\* ends with the cursor at start + 1.
C28_Witness ==
    /\ ResponseKnown("A")
    /\ pc["A"] = "record_success"
    /\ Requested("A") = 2
    /\ entries["A"] = 1
    /\ Cursor("A") = req["A"][1][1] + 1

\* An empty response to a request for at least one entry leaves the cursor
\* at the start of the range.
EmptyResponseKeepsCursor ==
    /\ ResponseKnown("A")
    /\ pc["A"] = "record_success"
    /\ Requested("A") >= 1
    /\ entries["A"] = 0
    /\ Cursor("A") = req["A"][1][1]

(***************************************************************************)
(* Retries and the shutdown signal.                                        *)
(***************************************************************************)
\* The wrapper is waiting in a retry backoff or about to send a retry.
InsideRetry ==
    /\ call # None
    /\ ret = None
    /\ call[1].retries >= 1
    /\ call[1].at \in {"sleep", "request"}

\* C31: once the shutdown signal has been sent, a wrapper that is waiting in
\* a retry backoff or about to retry sends no further request to the log.
C31_NoRetryAfterShutdown ==
    [][(shutdown /\ InsideRetry) => call'[1].requests = call[1].requests]_vars

\* A wrapper that was cancelled in its backoff still returns.
CancelledRetryReturns == (shutdown /\ InsideRetry) ~> (ret # None)

(***************************************************************************)
(* The automatic flush and the state file.                                 *)
(***************************************************************************)
\* Task t leaves the counting step of update_index in this step.
Counted(t) == spc[t] = "count" /\ spc'[t] \notin {"count", "dead"}

\* C32: the advance that brings the save counter to 100 resets it and goes
\* on to the flush, an earlier advance only counts and writes nothing; the
\* state file changes only to the full in-memory map; and a flush that
\* fails returns to the caller with the advanced index still in the map.
C32_HundredthAdvanceFlushes ==
    [][/\ \A t \in Logs : Counted(t) =>
              IF save_counter = AutoSaveEvery - 1
              THEN save_counter' = 0 /\ spc'[t] = "save"
              ELSE save_counter' = save_counter + 1 /\ spc'[t] = "idle" /\ file' = file
       /\ (file' # file) => (file' = state /\ state' = state)
       /\ \A t \in Logs :
              (spc[t] \in {"save", "write", "rename"} /\ spc'[t] \notin {"dead"}) =>
                  /\ spc'[t] \in {"save", "write", "rename", "idle"}
                  /\ MapGet(state', t) = Some(sarg[t])]_vars

\* C32 witness: the 100th advance of A has reset the counter and its flush
\* has written the whole map to the temporary file, about to be renamed.
C32_Witness ==
    /\ spc["A"] = "rename"
    /\ save_counter = 0
    /\ tmp = [kind |-> "whole", map |-> state]
    /\ MapGet(state, "A") = Some(sarg["A"])
    /\ file # state

\* Whatever the writes do, an advance returns to its caller (or the process
\* dies).
AdvanceReturns ==
    \A t \in Logs : (spc[t] = "count") ~> (spc[t] \in {"idle", "dead", "restarted"})

\* C36: the state file always holds a whole map, each of its indices is a
\* value the in-memory cursor of that log has held and is not ahead of the
\* cursor while the process runs, a restart loads exactly that map, and at
\* most one task is writing or renaming the temporary file.
C36_StateFileWholeAndBehind ==
    /\ file \in StoreMaps
    /\ \A l \in DOMAIN file : file[l] \in held[l]
    /\ (\A t \in StoreTasks : spc[t] \notin {"dead", "restarted"}) => FileBehind(file, state)
    /\ (\A t \in StoreTasks : spc[t] = "restarted") => state = file
    /\ Cardinality({t \in StoreTasks : spc[t] \in {"write", "rename"}}) <= 1
    /\ \A t \in StoreTasks : spc[t] \in {"write", "rename"} => slock = Some(t)

\* C36 witness: the process died while a flush had torn the temporary file,
\* and the restart resumed from the older map of the state file.
C36_Witness ==
    /\ \A t \in StoreTasks : spc[t] = "restarted"
    /\ tmp.kind = "torn"
    /\ \E l \in Logs : /\ l \in DOMAIN file
                       /\ Cardinality(held[l]) >= 2
                       /\ \E v \in held[l] : v > file[l]

\* A second flush waits while another one holds the state lock.
FlushWaitsForFlush ==
    \E t, u \in StoreTasks : spc[t] = "save" /\ spc[u] \in {"write", "rename"}

(***************************************************************************)
(* The guards.                                                             *)
(***************************************************************************)
\* C33: the consumer does not hold the watchlist guard while it emits to the
\* sinks or persists the match.
C33_GuardOnlyWhileMatching ==
    At("consumer").op \in {"emit", "persist"} => "watchlist" \notin HeldBy("consumer")

\* The platform-sync writer waits for the watchlist while the consumer emits.
SyncWaitsBehindFanOut ==
    /\ At("consumer").op = "emit"
    /\ At("sync").op = "lock"
    /\ ~CanStep("sync")

\* Task t waits for a guard another task holds.
WaitsForGuard(t) == At(t).op \in {"lock", "read", "write"} /\ ~CanStep(t)

BlockedSendIsUnblocked ==
    \A l \in Logs : (l \in urls /\ At(l).op = "send" /\ ~CanStep(l)) ~> (At(l).op # "send")

(***************************************************************************)
(* The decoder's bounds.                                                   *)
(***************************************************************************)
\* The entry type and the declared lengths as the format defines them.
LeafType(b) == b[11] * 256 + b[12]
LeafDeclared(b) == b[13] * 65536 + b[14] * 256 + b[15]
ExtraDeclared(b) == b[1] * 65536 + b[2] * 256 + b[3]
IsTruncation(r) ==
    r.outcome \in {"Leaf input too short", "x509_entry too short",
                   "extra_data too short for precert_entry", "extra_data truncated"}

\* C34: parse_log_entry reads nothing outside its buffers; fewer than 12
\* bytes is a truncation error; entry type 0 below 15 bytes is a truncation
\* error and otherwise hands over bytes [15, min(15 + L, length)); entry type
\* 1 (with precertificates enabled) hands over extra_data[3, 3 + E) and fails
\* when extra_data is shorter than 3 or than 3 + E bytes; another entry type
\* is an unknown-type error; the result is a precertificate exactly for
\* entry type 1.
C34_DecoderDispatch ==
    ret # None =>
        LET leaf == call[1].leaf_bytes
            extra == call[1].extra_bytes
            r == ret[1]
        IN /\ ~Panicked(r)
           /\ IF Len(leaf) < 12 THEN IsTruncation(r)
              ELSE IF LeafType(leaf) = 0
              THEN IF Len(leaf) < 15 THEN IsTruncation(r)
                   ELSE /\ r.outcome = "der"
                        /\ r.der = [i \in 1..(Min(15 + LeafDeclared(leaf), Len(leaf)) - 15) |-> leaf[15 + i]]
              ELSE IF LeafType(leaf) = 1
              THEN IF ~call[1].parse_precerts THEN r.outcome = "Precertificate parsing disabled"
                   ELSE IF Len(extra) < 3 THEN IsTruncation(r)
                   ELSE IF Len(extra) < 3 + ExtraDeclared(extra) THEN IsTruncation(r)
                   ELSE /\ r.outcome = "der"
                        /\ r.der = [i \in 1..ExtraDeclared(extra) |-> extra[3 + i]]
              ELSE r.outcome = "Unknown entry type"
           /\ r.outcome = "der" => (r.is_precert <=> LeafType(leaf) = 1)

\* C34 witness: an x509 entry whose declared length runs past the end of the
\* buffer is cut at the buffer's end.
C34_Witness ==
    /\ ret # None
    /\ ret[1].outcome = "der"
    /\ ret[1].entry_type = 0
    /\ 15 + ret[1].declared > Len(call[1].leaf_bytes)
    /\ Len(ret[1].der) = Len(call[1].leaf_bytes) - 15
    /\ Len(ret[1].der) >= 1

\* A precertificate entry whose extra_data is shorter than it declares fails.
TruncatedExtraFails ==
    /\ ret # None
    /\ ret[1].outcome = "extra_data truncated"
    /\ Len(call[1].extra_bytes) >= 3

(***************************************************************************)
(* The database cursor store under failures.                               *)
(***************************************************************************)
\* C35: with the database store, whatever lookups and upserts fail, the
\* stored cursor of a log never decreases and a cycle resumes from the
\* stored cursor, not from index 0.
C35_DbFailureKeepsCursor ==
    [][\A l \in urls :
          /\ Cursor(l)' >= Cursor(l)
          /\ (pc[l] = "get_index" /\ pc'[l] # "get_index") => last_index'[l] = Cursor(l)]_vars

\* The first half alone, also violated: after a failed lookup with the
\* cursor at 2 the upsert of entry 0 writes 1 over it.
DbCursorNonDecreasing == [][\A l \in urls : Cursor(l)' >= Cursor(l)]_vars

\* How often index i of log l is among the records the consumer drained, and
\* how often it waits in the queue.
TimesDrained(l, i) == Cardinality({k \in 1..Len(drained[l]) : drained[l][k] = i})

TimesQueued(l, i) == Cardinality({k \in 1..Len(queue) : queue[k].ct_log_url = Some(l) /\ queue[k].cert_index = Some(i)})

\* C37: every record whose send returned Ok is, at every moment, either in
\* the queue once or drained once, never both and never lost; the queue never
\* holds more than its capacity; and when the consumer loop has exited every
\* poller has exited, the queue is empty, every accepted record was drained
\* exactly once and total_processed counts exactly the accepted records.
C37_AcceptedDrainedOnce ==
    /\ Len(queue) <= QueueCap
    /\ \A l \in urls : \A i \in accepted[l] : TimesDrained(l, i) + TimesQueued(l, i) = 1
    /\ cpc = "done" =>
        /\ AllPollersExited
        /\ queue = <<>>
        /\ \A l \in urls : \A i \in accepted[l] : TimesDrained(l, i) = 1
        /\ total_processed = Cardinality(accepted["A"]) + Cardinality(accepted["B"])

\* C37 witness: the consumer loop has exited after draining at least two
\* records that the queue accepted.
C37_Witness ==
    /\ cpc = "done"
    /\ \E l \in urls : Cardinality(accepted[l]) >= 2
    /\ total_processed >= 2

\* C37, the blocking send: a poller waits at send while the queue is full.
PollerWaitsAtFullQueue == \E l \in urls : pc[l] = "send" /\ Len(queue) = QueueCap

\* C39: every get-entries request satisfies start <= end <= tree_size - 1 and
\* the computation of end neither panics nor wraps, for every u64 batch_size
\* (0 included) and every cursor below tree_size.
C39_RangeWithinTree ==
    ret # None =>
        /\ ~ret[1].panicked
        /\ ~ret[1].wrapped
        /\ U64Leq(call[1].last_index, ret[1].end_index)
        /\ U64Leq(ret[1].end_index, WrappingSubOne(call[1].tree_size))

\* C39, the part that holds: with batch_size >= 1 and a sum inside the u64
\* range the request is within the tree and nothing wraps.
PositiveBatchWithinTree ==
    (ret # None /\ call[1].batch_size # 0 /\ ~AddOverflows(call[1].last_index, call[1].batch_size)) =>
        /\ ~ret[1].panicked
        /\ ~ret[1].wrapped
        /\ U64Leq(call[1].last_index, ret[1].end_index)
        /\ U64Leq(ret[1].end_index, WrappingSubOne(call[1].tree_size))

SingleSinkFailed ==
    \E j \in 1..Len(handled) : \E m \in 1..Len(handled[j].matches) :
        LET e == handled[j].matches[m]
        IN  sinks = 1 /\ ~e.calls[1].ok /\ e.result = "Err"

\* C40, no sink: a MatchRecord was emitted with no sink registered.
NoSinkEmitted ==
    \E j \in 1..Len(handled) : handled[j].matches # <<>> /\ sinks = 0

==============================================================================
